---- MODULE Spec2Model ----
(***************************************************************************)
(* Anomaly detection and trust scoring of the Tableau data assistant       *)
(* (utils/anomaly_detection.py, utils/trust_scoring.py).                   *)
(*                                                                         *)
(* Numbers.  The Python code computes in float64.  The model computes the  *)
(* same quantities in exact integer arithmetic: every comparison of the    *)
(* code is multiplied out to integers (quartiles are carried times 4,      *)
(* the IQR multiplier and the z-score threshold in halves, a z-score       *)
(* test is compared squared).  Rows are numbered 0..len-1 as in a pandas   *)
(* RangeIndex, for which index labels and positions coincide.              *)
(***************************************************************************)
EXTENDS Integers, Sequences, FiniteSets, TLC

VARIABLES
    df,        \* the dataset the caller holds (a pandas DataFrame)
    sklearn,   \* SKLEARN_AVAILABLE, fixed when the module is imported
    forest,    \* what scikit-learn's IsolationForest does on df
    call,      \* the last call made and its arguments
    report,    \* the AnomalyReport the last call returned
    raised,    \* the exception the last call raised, or "none"
    emitted,   \* the warnings the last call emitted
    scoring,   \* the arguments of the last calculate_dataset_trust call
    trust,     \* the DatasetTrustReport that call returned
    store,     \* the trust_scores table of the SQLite database
    clock,     \* the time of day in UTC and the machine's offset from UTC
    result,    \* the last store operation and what it returned or raised
    writers    \* the callers that save concurrently, each with its connection

vars == <<df, sklearn, forest, call, report, raised, emitted, scoring, trust,
         store, clock, result, writers>>

(***************************************************************************)
(* Bounds of the model                                                     *)
(***************************************************************************)
MaxRows == 11      \* longest generated column
SmallRows == 4     \* generated columns have 0..SmallRows or MaxRows cells
MaxTail == 2       \* cells at the end of a generated column that vary
MaxForestFlags == 1 \* most rows the isolation forest labels anomalous
Base == 10         \* the common cell of a generated column
MaxTrustRows == 2  \* longest column of a scored dataset
MaxErrors == 6     \* most validation errors supplied about one column
MaxWarnings == 6   \* most validation warnings supplied about one column
Outlier == 100     \* the cell that stands out of a generated column

(***************************************************************************)
(* Cells, columns and frames                                               *)
(***************************************************************************)
\* A missing cell (NaN / None / NaT); every other cell is an integer.
NaN == -999999

\* The configured defaults.
OUTLIER_IQR_MULTIPLIER_HALVES == 3    \* 1.5, in halves
ZSCORE_DEFAULT_THRESHOLD_HALVES == 6  \* 3.0, in halves

IsNaN(c) == c = NaN

Repeat(v, k) == [i \in 1..k |-> v]

RECURSIVE SumSeq(_)
SumSeq(s) == IF s = <<>> THEN 0 ELSE Head(s) + SumSeq(Tail(s))

Square(x) == x * x

AbsInt(x) == IF x < 0 THEN -x ELSE x

\* pd.DataFrame: ordered named columns of equal length, each with a dtype.
DataFrame(columns, dtypes, data, length) ==
    [columns |-> columns, dtypes |-> dtypes, data |-> data, length |-> length]

\* len(df) and the row positions of df.
RowsOf(frame) == 0 .. (frame.length - 1)

\* Series.dropna(): the non-missing cells, in order.
dropna(vals) == SelectSeq(vals, LAMBDA c : ~IsNaN(c))

\* df.select_dtypes(include=[np.number]).columns.tolist(), as positions
\* into df.columns, in column order.
NumericDtypes == {"int64", "float64"}

numeric_cols(frame) ==
    {j \in 1..Len(frame.columns) : frame.dtypes[j] \in NumericDtypes}

\* sorted(values), by insertion.
InsertSorted(s, x) ==
    LET k == Cardinality({i \in 1..Len(s) : s[i] <= x})
    IN  SubSeq(s, 1, k) \o <<x>> \o SubSeq(s, k + 1, Len(s))

RECURSIVE sorted(_)
sorted(s) == IF s = <<>> THEN <<>> ELSE InsertSorted(sorted(Tail(s)), Head(s))

\* quantile4 without the interpolation: the cell of the lower rank.
quantile4_lower_rank(vals, q4) ==
    LET data  == sorted(vals)
        idx4  == q4 * (Len(data) - 1)
        lower == idx4 \div 4
    IN  4 * data[lower + 1]

\* Series.quantile(q) for q = q4/4 by linear interpolation between the two
\* closest ranks; the result is carried times 4.  vals has no missing cell
\* and is not empty.
quantile4(vals, q4) ==
    LET data  == sorted(vals)
        idx4  == q4 * (Len(data) - 1)
        lower == idx4 \div 4
        frac4 == idx4 % 4
        upper == IF frac4 = 0 THEN lower ELSE lower + 1
    IN  4 * data[lower + 1] + (data[upper + 1] - data[lower + 1]) * frac4

(***************************************************************************)
(* AnomalyReport                                                           *)
(***************************************************************************)
EmptyMap == [c \in {} |-> 0]

\* anomaly_percentage = total / len * 100, kept as the fraction num/den.
Percentage(total, length) == [num |-> 100 * total, den |-> length]

\* AnomalyReport(method=...): the dataclass defaults.
AnomalyReport(method) ==
    [method              |-> method,
     total_anomalies     |-> 0,
     anomaly_percentage  |-> [num |-> 0, den |-> 1],
     anomalies_by_column |-> EmptyMap,
     anomaly_indices     |-> {},
     feature_importance  |-> {},
     summary_stats       |-> EmptyMap]

\* What `report` holds when the last call returned nothing.
NoReport == AnomalyReport("<no value>")

Returned(r) == [raised |-> "none", report |-> r, emitted |-> <<>>]

Raised(e) == [raised |-> e, report |-> NoReport, emitted |-> <<>>]

(***************************************************************************)
(* IQRAnomalyDetector                                                      *)
(***************************************************************************)
\* The rows of column j that IQRAnomalyDetector.detect flags, multiplier
\* m2/2: (df[col] < lower_bound) | (df[col] > upper_bound).  Bounds are
\* carried times 8.
IQRColumnAnomalies(frame, j, m2) ==
    LET col_data == dropna(frame.data[j])
        Q1x4     == quantile4(col_data, 1)
        Q3x4     == quantile4(col_data, 3)
        IQRx4    == Q3x4 - Q1x4
        lower8   == 2 * Q1x4 - m2 * IQRx4
        upper8   == 2 * Q3x4 + m2 * IQRx4
    IN  IF Len(col_data) = 0
        THEN {}
        ELSE {i \in RowsOf(frame) :
                 /\ ~IsNaN(frame.data[j][i + 1])
                 /\ \/ 8 * frame.data[j][i + 1] < lower8
                    \/ 8 * frame.data[j][i + 1] > upper8}

\* IQRDetect without the early return for "not numeric_cols".
IQRDetect_no_early_return(frame, m2) ==
    LET cols    == numeric_cols(frame)
        flagged == {j \in cols : IQRColumnAnomalies(frame, j, m2) # {}}
        mask    == UNION {IQRColumnAnomalies(frame, j, m2) : j \in flagged}
        names   == {frame.columns[j] : j \in flagged}
        PosOf(c) == CHOOSE j \in flagged : frame.columns[j] = c
    IN  IF frame.length = 0
        THEN Raised("ZeroDivisionError")
        ELSE Returned(
            [method              |-> "IQR",
             total_anomalies     |-> Cardinality(mask),
             anomaly_percentage  |-> Percentage(Cardinality(mask), frame.length),
             anomalies_by_column |->
                 [c \in names |->
                     Cardinality(IQRColumnAnomalies(frame, PosOf(c), m2))],
             anomaly_indices     |-> mask,
             feature_importance  |-> {},
             summary_stats       |->
                 [c \in names |->
                     [Q1x4 |-> quantile4(dropna(frame.data[PosOf(c)]), 1),
                      Q3x4 |-> quantile4(dropna(frame.data[PosOf(c)]), 3),
                      outlier_count |->
                          Cardinality(IQRColumnAnomalies(frame, PosOf(c), m2))]]])

\* IQRDetect with anomaly_mask = col_anomalies in place of |=: the mask of
\* the last flagged column replaces the masks of the columns before it.
IQRDetect_last_column(frame, m2) ==
    LET cols    == numeric_cols(frame)
        flagged == {j \in cols : IQRColumnAnomalies(frame, j, m2) # {}}
        mask    == IF flagged = {} THEN {}
                   ELSE IQRColumnAnomalies(
                            frame, CHOOSE j \in flagged : \A k \in flagged : k <= j, m2)
        names   == {frame.columns[j] : j \in flagged}
        PosOf(c) == CHOOSE j \in flagged : frame.columns[j] = c
    IN  IF cols = {}
        THEN Returned(AnomalyReport("IQR"))
        ELSE IF frame.length = 0
        THEN Raised("ZeroDivisionError")
        ELSE Returned(
            [method              |-> "IQR",
             total_anomalies     |-> Cardinality(mask),
             anomaly_percentage  |-> Percentage(Cardinality(mask), frame.length),
             anomalies_by_column |->
                 [c \in names |->
                     Cardinality(IQRColumnAnomalies(frame, PosOf(c), m2))],
             anomaly_indices     |-> mask,
             feature_importance  |-> {},
             summary_stats       |->
                 [c \in names |->
                     [Q1x4 |-> quantile4(dropna(frame.data[PosOf(c)]), 1),
                      Q3x4 |-> quantile4(dropna(frame.data[PosOf(c)]), 3),
                      outlier_count |->
                          Cardinality(IQRColumnAnomalies(frame, PosOf(c), m2))]]])

\* IQRAnomalyDetector(multiplier).detect(df)
IQRDetect(frame, m2) ==
    LET cols    == numeric_cols(frame)
        flagged == {j \in cols : IQRColumnAnomalies(frame, j, m2) # {}}
        mask    == UNION {IQRColumnAnomalies(frame, j, m2) : j \in flagged}
        names   == {frame.columns[j] : j \in flagged}
        PosOf(c) == CHOOSE j \in flagged : frame.columns[j] = c
    IN  IF cols = {}
        THEN Returned(AnomalyReport("IQR"))
        ELSE IF frame.length = 0
        THEN Raised("ZeroDivisionError")
        ELSE Returned(
            [method              |-> "IQR",
             total_anomalies     |-> Cardinality(mask),
             anomaly_percentage  |-> Percentage(Cardinality(mask), frame.length),
             anomalies_by_column |->
                 [c \in names |->
                     Cardinality(IQRColumnAnomalies(frame, PosOf(c), m2))],
             anomaly_indices     |-> mask,
             feature_importance  |-> {},
             summary_stats       |->
                 [c \in names |->
                     [Q1x4 |-> quantile4(dropna(frame.data[PosOf(c)]), 1),
                      Q3x4 |-> quantile4(dropna(frame.data[PosOf(c)]), 3),
                      outlier_count |->
                          Cardinality(IQRColumnAnomalies(frame, PosOf(c), m2))]]])

(***************************************************************************)
(* ZScoreAnomalyDetector                                                   *)
(***************************************************************************)
\* n * (n-1) * variance of the non-missing cells (ddof = 1).
ScaledVariance(col_data) ==
    Len(col_data) * SumSeq([i \in 1..Len(col_data) |-> Square(col_data[i])])
        - Square(SumSeq(col_data))

\* ZScoreColumnAnomalies with the comparison turned: z_scores < threshold.
ZScoreColumnAnomalies_below(frame, j, t2) ==
    LET col_data == dropna(frame.data[j])
        n        == Len(col_data)
        S        == SumSeq(col_data)
        V        == ScaledVariance(col_data)
    IN  IF n = 0 \/ n = 1 \/ V = 0
        THEN {}
        ELSE {i \in RowsOf(frame) :
                 /\ ~IsNaN(frame.data[j][i + 1])
                 /\ 4 * Square(n * frame.data[j][i + 1] - S) * (n - 1)
                        < Square(t2) * n * V}

\* The rows of column j with |x - mean| / std > t2/2.  With n non-missing
\* cells of sum S, z^2 = (n*x - S)^2 * (n-1) / (n * ScaledVariance).
\* A single cell has std = NaN: "std == 0" is false and no z-score
\* exceeds the threshold.
ZScoreColumnAnomalies(frame, j, t2) ==
    LET col_data == dropna(frame.data[j])
        n        == Len(col_data)
        S        == SumSeq(col_data)
        V        == ScaledVariance(col_data)
    IN  IF n = 0 \/ n = 1 \/ V = 0
        THEN {}
        ELSE {i \in RowsOf(frame) :
                 /\ ~IsNaN(frame.data[j][i + 1])
                 /\ 4 * Square(n * frame.data[j][i + 1] - S) * (n - 1)
                        > Square(t2) * n * V}

\* ZScoreAnomalyDetector(threshold).detect(df)
ZScoreDetect(frame, t2) ==
    LET cols    == numeric_cols(frame)
        flagged == {j \in cols : ZScoreColumnAnomalies(frame, j, t2) # {}}
        mask    == UNION {ZScoreColumnAnomalies(frame, j, t2) : j \in flagged}
        names   == {frame.columns[j] : j \in flagged}
        PosOf(c) == CHOOSE j \in flagged : frame.columns[j] = c
    IN  IF cols = {}
        THEN Returned(AnomalyReport("Z-Score"))
        ELSE IF frame.length = 0
        THEN Raised("ZeroDivisionError")
        ELSE Returned(
            [method              |-> "Z-Score",
             total_anomalies     |-> Cardinality(mask),
             anomaly_percentage  |-> Percentage(Cardinality(mask), frame.length),
             anomalies_by_column |->
                 [c \in names |->
                     Cardinality(ZScoreColumnAnomalies(frame, PosOf(c), t2))],
             anomaly_indices     |-> mask,
             feature_importance  |-> {},
             summary_stats       |->
                 [c \in names |->
                     [threshold2 |-> t2,
                      outlier_count |->
                          Cardinality(ZScoreColumnAnomalies(frame, PosOf(c), t2))]]])

(***************************************************************************)
(* IsolationForestDetector                                                 *)
(***************************************************************************)
\* Twice X.median() of a column: the middle cell of the sorted non-missing
\* cells, or the mean of the two middle cells; NaN when all are missing.
median2(vals) ==
    LET data == sorted(dropna(vals))
        m    == Len(data)
    IN  IF m = 0 THEN NaN ELSE data[(m + 1) \div 2] + data[(m + 2) \div 2]

\* Twice X.fillna(X.median()) of column j.
Imputed2(frame, j) ==
    [i \in 1..frame.length |->
        IF IsNaN(frame.data[j][i]) THEN median2(frame.data[j])
                                   ELSE 2 * frame.data[j][i]]

\* A numeric column with rows of which every cell is missing: its median
\* is NaN and fillna leaves the NaN cells in X.
HasAllMissingNumeric(frame) ==
    /\ frame.length > 0
    /\ \E j \in numeric_cols(frame) : dropna(frame.data[j]) = <<>>

\* Some cell of x is missing: np.mean and np.std are then NaN, "std > 0"
\* is false and the contribution is 0.0.
HasNaN(x) == \E i \in 1..Len(x) : IsNaN(x[i])

\* int(anomaly_mask.sum() * col_contribution) with col_contribution =
\* min(separation / std, 1.0) from _calculate_feature_contribution, for the
\* imputed cells x of one column.  Standardising divides separation and std
\* alike, so with k flagged rows of sum SA, n-k others of sum SN,
\* D = SA*(n-k) - SN*k and V = n^2 * population variance:
\* separation / std = |D| * n / (k * (n-k) * sqrt(V)).
ColumnAnomalyEstimate(x, mask) ==
    LET n  == Len(x)
        k  == Cardinality(mask)
        SA == SumSeq([i \in 1..n |-> IF (i - 1) \in mask THEN x[i] ELSE 0])
        SN == SumSeq(x) - SA
        D  == SA * (n - k) - SN * k
        V  == ScaledVariance(x)
    IN  IF k = 0 \/ k = n \/ HasNaN(x) \/ V = 0 \/ D = 0
        THEN 0
        ELSE CHOOSE c \in 0..k :
                /\ Square(c) * V * Square(n - k) <= Square(D) * Square(n)
                /\ \A c2 \in 0..k :
                      Square(c2) * V * Square(n - k) <= Square(D) * Square(n)
                          => c2 <= c

\* col_contribution > 0
ContributionPositive(x, mask) ==
    LET n  == Len(x)
        k  == Cardinality(mask)
        SA == SumSeq([i \in 1..n |-> IF (i - 1) \in mask THEN x[i] ELSE 0])
        SN == SumSeq(x) - SA
    IN  /\ k # 0 /\ k # n /\ ~HasNaN(x)
        /\ ScaledVariance(x) # 0 /\ SA * (n - k) - SN * k # 0

\* IsolationForestDetector().detect(df).  fst is what scikit-learn does on
\* this frame: the rows fit_predict labels -1, or a ValueError for input
\* that still holds NaN.
IsolationForestDetect(frame, skl, fst) ==
    LET cols    == numeric_cols(frame)
        mask    == fst.mask
        flagged == {j \in cols : ColumnAnomalyEstimate(Imputed2(frame, j), mask) > 0}
        names   == {frame.columns[j] : j \in flagged}
        PosOf(c) == CHOOSE j \in flagged : frame.columns[j] = c
    IN  IF ~skl
        THEN Raised("ImportError")
        ELSE IF cols = {} \/ frame.length = 0
        THEN Returned(AnomalyReport("Isolation Forest"))
        ELSE IF fst.raises
        THEN Raised("ValueError")
        ELSE Returned(
            [method              |-> "Isolation Forest",
             total_anomalies     |-> Cardinality(mask),
             anomaly_percentage  |-> Percentage(Cardinality(mask), frame.length),
             anomalies_by_column |->
                 [c \in names |->
                     ColumnAnomalyEstimate(Imputed2(frame, PosOf(c)), mask)],
             anomaly_indices     |-> mask,
             feature_importance  |->
                 {frame.columns[j] : j \in
                     {j2 \in cols : ContributionPositive(Imputed2(frame, j2), mask)}},
             summary_stats       |->
                 [c \in {"contamination_pct", "n_estimators"} |->
                     IF c = "n_estimators" THEN 100 ELSE 5]])

(***************************************************************************)
(* AnomalyDetectorEnsemble                                                 *)
(***************************************************************************)
KnownVoting == {"majority", "unanimous", "any"}

\* EnsembleDetectors with self.use_isolation_forest = use_isolation_forest,
\* without "and SKLEARN_AVAILABLE".
EnsembleDetectors_unchecked(use_iqr, use_zscore, use_isolation_forest, skl) ==
    (IF use_iqr THEN <<"IQR">> ELSE <<>>)
        \o (IF use_zscore THEN <<"Z-Score">> ELSE <<>>)
        \o (IF use_isolation_forest THEN <<"Isolation Forest">> ELSE <<>>)

\* AnomalyDetectorEnsemble.__init__: self.detectors, by name, in order.
EnsembleDetectors(use_iqr, use_zscore, use_isolation_forest, skl) ==
    (IF use_iqr THEN <<"IQR">> ELSE <<>>)
        \o (IF use_zscore THEN <<"Z-Score">> ELSE <<>>)
        \o (IF use_isolation_forest /\ skl THEN <<"Isolation Forest">> ELSE <<>>)

\* detector.detect(df) of one member, built with its defaults.
MemberDetect(name, frame, skl, fst) ==
    CASE name = "IQR"     -> IQRDetect(frame, OUTLIER_IQR_MULTIPLIER_HALVES)
      [] name = "Z-Score" -> ZScoreDetect(frame, ZSCORE_DEFAULT_THRESHOLD_HALVES)
      [] OTHER            -> IsolationForestDetect(frame, skl, fst)

\* MajorityVote with vote_counts >= len(masks) / 2.
MajorityVote_at_least_half(frame, masks) ==
    {i \in RowsOf(frame) :
        2 * Cardinality({d \in 1..Len(masks) : i \in masks[d]}) >= Len(masks)}

\* vote_counts > len(masks) / 2
MajorityVote(frame, masks) ==
    {i \in RowsOf(frame) :
        2 * Cardinality({d \in 1..Len(masks) : i \in masks[d]}) > Len(masks)}

\* UnanimousVote combining with |= as the any branch does.
UnanimousVote_or(frame, masks) ==
    {i \in RowsOf(frame) : \E d \in 1..Len(masks) : i \in masks[d]}

\* final_mask = masks[0]; final_mask &= mask for the others
UnanimousVote(frame, masks) ==
    {i \in RowsOf(frame) : \A d \in 1..Len(masks) : i \in masks[d]}

\* final_mask = masks[0]; final_mask |= mask for the others
AnyVote(frame, masks) ==
    {i \in RowsOf(frame) : \E d \in 1..Len(masks) : i \in masks[d]}

\* ApplyVoting whose else branch defaults to any.
ApplyVoting_default_any(voting, frame, masks) ==
    CASE voting = "majority"  -> MajorityVote(frame, masks)
      [] voting = "unanimous" -> UnanimousVote(frame, masks)
      [] OTHER                -> AnyVote(frame, masks)

\* The branch of _combine_reports taken for self.voting.
ApplyVoting(voting, frame, masks) ==
    CASE voting = "majority"  -> MajorityVote(frame, masks)
      [] voting = "unanimous" -> UnanimousVote(frame, masks)
      [] voting = "any"       -> AnyVote(frame, masks)
      [] OTHER                -> MajorityVote(frame, masks)

\* report.anomalies_by_column.get(col, 0)
GetCount(r, c) ==
    IF c \in DOMAIN r.anomalies_by_column THEN r.anomalies_by_column[c] ELSE 0

\* int(np.mean(counts)) over the detectors' counts of column c
MeanCount(reports, c) ==
    SumSeq([d \in 1..Len(reports) |-> GetCount(reports[d], c)]) \div Len(reports)

\* AnomalyDetectorEnsemble._combine_reports(df, reports); names[d] is the
\* detector that produced reports[d].
combine_reports(frame, names, reports, voting) ==
    LET masks      == [d \in 1..Len(reports) |-> reports[d].anomaly_indices]
        final_mask == ApplyVoting(voting, frame, masks)
        all_cols   == UNION {DOMAIN reports[d].anomalies_by_column :
                                d \in 1..Len(reports)}
    IN  IF frame.length = 0
        THEN Raised("ZeroDivisionError")
        ELSE Returned(
            [method              |-> "Ensemble (" \o voting \o " voting)",
             total_anomalies     |-> Cardinality(final_mask),
             anomaly_percentage  |->
                 Percentage(Cardinality(final_mask), frame.length),
             anomalies_by_column |-> [c \in all_cols |-> MeanCount(reports, c)],
             anomaly_indices     |-> final_mask,
             feature_importance  |-> {},
             summary_stats       |->
                 [c \in {"detector_results"} |->
                     [d \in 1..Len(reports) |->
                         [name            |-> names[d],
                          total_anomalies |-> reports[d].total_anomalies,
                          percentage      |-> reports[d].anomaly_percentage]]]])

\* EnsembleDetect without "if not self.detectors": _combine_reports then
\* votes on no mask and fails on the bool it gets.
EnsembleDetect_no_empty_guard(frame, detectors, voting, skl, fst) ==
    LET results == [d \in 1..Len(detectors) |->
                       MemberDetect(detectors[d], frame, skl, fst)]
        failing == {d \in 1..Len(detectors) : results[d].raised # "none"}
        first   == CHOOSE d \in failing : \A e \in failing : d <= e
    IN  IF detectors = <<>>
        THEN Raised("AttributeError")
        ELSE IF failing # {}
        THEN Raised(results[first].raised)
        ELSE combine_reports(frame, detectors,
                             [d \in 1..Len(detectors) |-> results[d].report],
                             voting)

\* AnomalyDetectorEnsemble.detect(df) of an ensemble holding `detectors`.
EnsembleDetect(frame, detectors, voting, skl, fst) ==
    LET results == [d \in 1..Len(detectors) |->
                       MemberDetect(detectors[d], frame, skl, fst)]
        failing == {d \in 1..Len(detectors) : results[d].raised # "none"}
        first   == CHOOSE d \in failing : \A e \in failing : d <= e
    IN  IF detectors = <<>>
        THEN Returned(AnomalyReport("Ensemble (empty)"))
        ELSE IF failing # {}
        THEN Raised(results[first].raised)
        ELSE combine_reports(frame, detectors,
                             [d \in 1..Len(detectors) |-> results[d].report],
                             voting)

(***************************************************************************)
(* Exact fractions for the scores                                          *)
(***************************************************************************)
RECURSIVE GCD(_, _)
GCD(a, b) == IF b = 0 THEN a ELSE GCD(b, a % b)

\* num/den in lowest terms, den > 0.
Frac(num, den) ==
    LET g == GCD(AbsInt(num), den)
    IN  [num |-> num \div g, den |-> den \div g]

Whole(k) == [num |-> k, den |-> 1]

FAdd(a, b) == Frac(a.num * b.den + b.num * a.den, a.den * b.den)

FSub(a, b) == Frac(a.num * b.den - b.num * a.den, a.den * b.den)

FTimes(a, k) == Frac(a.num * k, a.den)

FOver(a, k) == Frac(a.num, a.den * k)

FLeq(a, b) == a.num * b.den <= b.num * a.den

FLess(a, b) == a.num * b.den < b.num * a.den

FMin(a, b) == IF FLeq(a, b) THEN a ELSE b

FMax(a, b) == IF FLeq(a, b) THEN b ELSE a

\* float('nan'), the mean of no numbers.
NaNScore == [num |-> 0, den |-> 0]

(***************************************************************************)
(* TrustScoreCalculator                                                    *)
(***************************************************************************)
\* An optional argument that was not given.
None == "<None>"

\* WEIGHTS with the freshness weight mistyped.
WEIGHTS_freshness_25 ==
    [completeness |-> 30, validity |-> 30, anomaly |-> 25, freshness |-> 25]

\* TrustScoreCalculator.WEIGHTS, in hundredths.
WEIGHTS ==
    [completeness |-> 30, validity |-> 30, anomaly |-> 25, freshness |-> 15]

\* series.isnull().sum()
NullCount(cells) == Cardinality({i \in 1..Len(cells) : IsNaN(cells[i])})

\* _calculate_completeness_score without the "1 -": the share of missing
\* cells.
calculate_completeness_score_null_share(cells) ==
    IF Len(cells) = 0
    THEN Whole(0)
    ELSE FMax(Whole(0),
              FMin(Whole(100), Frac(100 * NullCount(cells), Len(cells))))

\* TrustScoreCalculator._calculate_completeness_score
calculate_completeness_score(cells) ==
    IF Len(cells) = 0
    THEN Whole(0)
    ELSE FMax(Whole(0),
              FMin(Whole(100),
                   Frac(100 * (Len(cells) - NullCount(cells)), Len(cells))))

\* needle in hay, for Python strings.
Contains(hay, needle) ==
    \E i \in 1..(Len(hay) - Len(needle) + 1) :
        SubSeq(hay, i, i + Len(needle) - 1) = needle

\* str(e) of a validation entry: the repr of its dict.
EntryText(e) ==
    "{'check': '" \o e.check \o "', "
        \o (IF e.column = None THEN "" ELSE "'column': '" \o e.column \o "', ")
        \o "'severity': '" \o e.severity \o "', "
        \o e.details
        \o "'message': \"" \o e.message \o "\"}"

\* e.get('column') == field_name or field_name in str(e)
EntryMatches(e, field_name) ==
    e.column = field_name \/ Contains(EntryText(e), field_name)

\* TrustScoreCalculator._calculate_validity_score
calculate_validity_score(field_name, validation_result) ==
    LET field_errors ==
            SelectSeq(validation_result.errors,
                      LAMBDA e : EntryMatches(e, field_name))
        field_warnings ==
            SelectSeq(validation_result.warnings,
                      LAMBDA w : EntryMatches(w, field_name))
        afterErrors == 100 - (IF Len(field_errors) * 10 < 50
                              THEN Len(field_errors) * 10 ELSE 50)
        afterWarnings == afterErrors - (IF Len(field_warnings) * 5 < 25
                                        THEN Len(field_warnings) * 5 ELSE 25)
    IN  IF ~validation_result.given
        THEN Whole(100)
        ELSE FMax(Whole(0), Whole(afterWarnings))

\* _calculate_anomaly_score without the cap min(50.0, ...) on the deduction.
calculate_anomaly_score_uncapped(cells, dtype, field_name, anomaly_report) ==
    IF ~anomaly_report.given \/ dtype \notin NumericDtypes
    THEN Whole(100)
    ELSE IF Len(cells) > 0
    THEN LET anomaly_count == GetCount(anomaly_report.report, field_name)
             anomaly_percentage == Frac(100 * anomaly_count, Len(cells))
         IN  FMax(Whole(0),
                  FSub(Whole(100), FTimes(anomaly_percentage, 2)))
    ELSE Whole(100)

\* TrustScoreCalculator._calculate_anomaly_score
calculate_anomaly_score(cells, dtype, field_name, anomaly_report) ==
    IF ~anomaly_report.given \/ dtype \notin NumericDtypes
    THEN Whole(100)
    ELSE IF Len(cells) > 0
    THEN LET anomaly_count == GetCount(anomaly_report.report, field_name)
             anomaly_percentage == Frac(100 * anomaly_count, Len(cells))
         IN  FMax(Whole(0),
                  FSub(Whole(100),
                       FMin(Whole(50), FTimes(anomaly_percentage, 2))))
    ELSE Whole(100)

\* Timestamps are whole days counted from now: 0 is now, -7 a week ago.
\* NaT is NaN.  pd.to_datetime(series, errors='coerce') of one cell: a
\* number is taken as nanoseconds after 1970-01-01, a text cell <= 0 is
\* the ISO text of that day, any other text does not parse.
EpochDay == 0 - 20000

to_datetime(c, dtype) ==
    IF IsNaN(c) THEN NaN
    ELSE IF dtype \in NumericDtypes THEN EpochDay
    ELSE IF c <= 0 THEN c
    ELSE NaN

\* series.max() over the cells that are not NaT; NaT if there is none.
MaxDate(cells) ==
    LET present == {cells[i] : i \in 1..Len(cells)} \ {NaN}
    IN  IF present = {} THEN NaN
        ELSE CHOOSE t \in present : \A u \in present : u <= t

\* calculate_freshness_score without max(0.0, ...) and min(40.0, ...) in
\* the branch for data older than 30 days.
calculate_freshness_score_unclamped(cells, dtype, is_date_column, threshold) ==
    LET parsed   == IF dtype \in {"datetime64", "datetime64tz"}
                    THEN cells
                    ELSE [i \in 1..Len(cells) |-> to_datetime(cells[i], dtype)]
        max_date == MaxDate(parsed)
        days_old == 0 - max_date
    IN  IF is_date_column = None THEN Whole(100)
        ELSE IF IsNaN(max_date) THEN Whole(50)
        ELSE IF dtype = "datetime64tz" THEN Whole(100)
        ELSE IF days_old <= 1 THEN Whole(100)
        ELSE IF days_old <= threshold
        THEN FSub(Whole(100), FTimes(Frac(days_old, threshold), 30))
        ELSE IF days_old <= 30
        THEN FSub(Whole(70), FTimes(Frac(days_old - threshold, 23), 30))
        ELSE FSub(Whole(40), FTimes(Frac(days_old - 30, 30), 40))

\* calculate_freshness_score whose 8..30 day branch decays by days_old / 23
\* instead of (days_old - threshold) / 23.
calculate_freshness_score_no_offset(cells, dtype, is_date_column, threshold) ==
    LET parsed   == IF dtype \in {"datetime64", "datetime64tz"}
                    THEN cells
                    ELSE [i \in 1..Len(cells) |-> to_datetime(cells[i], dtype)]
        max_date == MaxDate(parsed)
        days_old == 0 - max_date
    IN  IF is_date_column = None THEN Whole(100)
        ELSE IF IsNaN(max_date) THEN Whole(50)
        ELSE IF dtype = "datetime64tz" THEN Whole(100)
        ELSE IF days_old <= 1 THEN Whole(100)
        ELSE IF days_old <= threshold
        THEN FSub(Whole(100), FTimes(Frac(days_old, threshold), 30))
        ELSE IF days_old <= 30
        THEN FSub(Whole(70), FTimes(Frac(days_old, 23), 30))
        ELSE FMax(Whole(0),
                  FSub(Whole(40),
                       FMin(Whole(40), FTimes(Frac(days_old - 30, 30), 40))))

\* TrustScoreCalculator._calculate_freshness_score with
\* self.freshness_threshold_days = threshold.  A timezone-aware column
\* cannot be subtracted from datetime.now(): the TypeError is swallowed.
calculate_freshness_score(cells, dtype, is_date_column, threshold) ==
    LET parsed   == IF dtype \in {"datetime64", "datetime64tz"}
                    THEN cells
                    ELSE [i \in 1..Len(cells) |-> to_datetime(cells[i], dtype)]
        max_date == MaxDate(parsed)
        days_old == 0 - max_date
    IN  IF is_date_column = None THEN Whole(100)
        ELSE IF IsNaN(max_date) THEN Whole(50)
        ELSE IF dtype = "datetime64tz" THEN Whole(100)
        ELSE IF days_old <= 1 THEN Whole(100)
        ELSE IF days_old <= threshold
        THEN FSub(Whole(100), FTimes(Frac(days_old, threshold), 30))
        ELSE IF days_old <= 30
        THEN FSub(Whole(70), FTimes(Frac(days_old - threshold, 23), 30))
        ELSE FMax(Whole(0),
                  FSub(Whole(40),
                       FMin(Whole(40), FTimes(Frac(days_old - 30, 30), 40))))

\* f"{x:.1f}": x rounded to one decimal, ties to even.
Format1(x) ==
    LET twenty == (20 * x.num) \div x.den
        exact  == (20 * x.num) % x.den = 0
        tenths == IF twenty % 2 = 0 THEN twenty \div 2
                  ELSE IF ~exact THEN twenty \div 2 + 1
                  ELSE IF (twenty \div 2) % 2 = 0 THEN twenty \div 2
                  ELSE twenty \div 2 + 1
    IN  ToString(tenths \div 10) \o "." \o ToString(tenths % 10)

\* TrustScoreCalculator._generate_reasons_and_warnings
generate_reasons_and_warnings(completeness, validity, anomaly, freshness) ==
    [reasons |->
        (IF FLeq(Whole(95), completeness)
         THEN <<"Excellent data completeness (e95%)">>
         ELSE IF FLeq(Whole(80), completeness)
         THEN <<"Good data completeness (e80%)">> ELSE <<>>)
        \o (IF FLeq(Whole(95), validity)
            THEN <<"Passes all validation checks">>
            ELSE IF FLeq(Whole(80), validity)
            THEN <<"Minor validation warnings only">> ELSE <<>>)
        \o (IF FLeq(Whole(95), anomaly)
            THEN <<"No significant anomalies detected">>
            ELSE IF FLeq(Whole(80), anomaly)
            THEN <<"Few anomalies detected">> ELSE <<>>)
        \o (IF FLeq(Whole(95), freshness)
            THEN <<"Data is very fresh (d1 day old)">>
            ELSE IF FLeq(Whole(70), freshness)
            THEN <<"Data is reasonably fresh">> ELSE <<>>),
     warnings |->
        (IF FLess(completeness, Whole(80))
         THEN <<"Low completeness (" \o Format1(completeness) \o "%)">>
         ELSE <<>>)
        \o (IF FLess(validity, Whole(80))
            THEN <<"Has validation errors">> ELSE <<>>)
        \o (IF FLess(anomaly, Whole(80))
            THEN <<"High anomaly rate ("
                       \o Format1(FSub(Whole(100), anomaly)) \o "%)">>
            ELSE <<>>)
        \o (IF FLeq(Whole(70), freshness) THEN <<>>
            ELSE IF FLeq(Whole(40), freshness)
            THEN <<"Data is somewhat stale (>7 days)">>
            ELSE <<"Data is very stale (>30 days)">>)]

\* The weighted sum of _calculate_field_trust.
WeightedTrust(completeness, validity, anomaly, freshness) ==
    FOver(FAdd(FAdd(FTimes(completeness, WEIGHTS.completeness),
                    FTimes(validity, WEIGHTS.validity)),
               FAdd(FTimes(anomaly, WEIGHTS.anomaly),
                    FTimes(freshness, WEIGHTS.freshness))),
          100)

\* TrustScoreCalculator._calculate_field_trust(df[col], col, ...)
calculate_field_trust(cells, dtype, field_name, validation_result, anomaly_report, date_column, threshold) ==
    LET completeness_score == calculate_completeness_score(cells)
        validity_score ==
            calculate_validity_score(field_name, validation_result)
        anomaly_score ==
            calculate_anomaly_score(cells, dtype, field_name, anomaly_report)
        freshness_score ==
            calculate_freshness_score(cells, dtype, date_column, threshold)
        texts == generate_reasons_and_warnings(
                     completeness_score, validity_score,
                     anomaly_score, freshness_score)
    IN  [field_name         |-> field_name,
         trust_score        |-> WeightedTrust(completeness_score, validity_score,
                                              anomaly_score, freshness_score),
         completeness_score |-> completeness_score,
         validity_score     |-> validity_score,
         anomaly_score      |-> anomaly_score,
         freshness_score    |-> freshness_score,
         sample_size        |-> Len(cells),
         last_validated     |-> 0,
         reasons            |-> texts.reasons,
         warnings           |-> texts.warnings]

\* TrustScore.get_grade()
get_grade(trust_score) ==
    IF FLeq(Whole(95), trust_score) THEN "A+"
    ELSE IF FLeq(Whole(90), trust_score) THEN "A"
    ELSE IF FLeq(Whole(85), trust_score) THEN "B+"
    ELSE IF FLeq(Whole(80), trust_score) THEN "B"
    ELSE IF FLeq(Whole(75), trust_score) THEN "C+"
    ELSE IF FLeq(Whole(70), trust_score) THEN "C"
    ELSE IF FLeq(Whole(60), trust_score) THEN "D"
    ELSE "F"

\* get_color with the limit of its second band at 78, a limit that no grade
\* has.
get_color_own_limits(trust_score) ==
    IF FLeq(Whole(90), trust_score) THEN "#10a37f"
    ELSE IF FLeq(Whole(78), trust_score) THEN "#f39c12"
    ELSE IF FLeq(Whole(60), trust_score) THEN "#e67e22"
    ELSE "#e74c3c"

\* TrustScore.get_color()
get_color(trust_score) ==
    IF FLeq(Whole(90), trust_score) THEN "#10a37f"
    ELSE IF FLeq(Whole(75), trust_score) THEN "#f39c12"
    ELSE IF FLeq(Whole(60), trust_score) THEN "#e67e22"
    ELSE "#e74c3c"

RECURSIVE SumScores(_)
SumScores(scores) ==
    IF scores = <<>> THEN Whole(0)
    ELSE FAdd(Head(scores).trust_score, SumScores(Tail(scores)))

\* np.mean of the field trust scores; of no score it is NaN.
MeanTrust(scores) ==
    IF scores = <<>> THEN NaNScore ELSE FOver(SumScores(scores), Len(scores))

\* sum(1 for s in field_scores if s.trust_score >= lo)
CountAtLeast(scores, lo) ==
    Cardinality({i \in 1..Len(scores) : FLeq(Whole(lo), scores[i].trust_score)})

\* sum(1 for s in field_scores if s.trust_score < hi)
CountBelow(scores, hi) ==
    Cardinality({i \in 1..Len(scores) : FLess(scores[i].trust_score, Whole(hi))})

\* CountBetween without its upper limit: sum(1 for s in field_scores if
\* lo <= s.trust_score).
CountBetween_no_upper(scores, lo, hi) ==
    Cardinality({i \in 1..Len(scores) : FLeq(Whole(lo), scores[i].trust_score)})

\* sum(1 for s in field_scores if lo <= s.trust_score < hi)
CountBetween(scores, lo, hi) ==
    Cardinality({i \in 1..Len(scores) :
                    /\ FLeq(Whole(lo), scores[i].trust_score)
                    /\ FLess(scores[i].trust_score, Whole(hi))})

\* calculate_dataset_trust with a loop that passes over the columns that are
\* not numeric instead of scoring them.
calculate_dataset_trust_numeric_only(frame, validation_result, anomaly_report, date_column, dataset_name, threshold) ==
    LET cols == SelectSeq([j \in 1..Len(frame.columns) |-> j],
                          LAMBDA j : frame.dtypes[j] \in NumericDtypes)
        field_scores ==
            [k \in 1..Len(cols) |->
                calculate_field_trust(
                    frame.data[cols[k]], frame.dtypes[cols[k]],
                    frame.columns[cols[k]],
                    validation_result, anomaly_report,
                    IF frame.columns[cols[k]] = date_column
                    THEN date_column ELSE None,
                    threshold)]
    IN  [dataset_name        |-> dataset_name,
         overall_trust_score |-> MeanTrust(field_scores),
         field_scores        |-> field_scores,
         timestamp           |-> 0,
         metadata            |->
             [total_fields       |-> Len(field_scores),
              high_trust_fields  |->
                  CountAtLeast(field_scores, 90),
              medium_trust_fields |->
                  CountBetween(field_scores, 75, 90),
              low_trust_fields   |->
                  CountBelow(field_scores, 75)]]

\* TrustScoreCalculator(threshold).calculate_dataset_trust(df, ...)
calculate_dataset_trust(frame, validation_result, anomaly_report, date_column, dataset_name, threshold) ==
    LET field_scores ==
            [j \in 1..Len(frame.columns) |->
                calculate_field_trust(
                    frame.data[j], frame.dtypes[j], frame.columns[j],
                    validation_result, anomaly_report,
                    IF frame.columns[j] = date_column THEN date_column ELSE None,
                    threshold)]
    IN  [dataset_name        |-> dataset_name,
         overall_trust_score |-> MeanTrust(field_scores),
         field_scores        |-> field_scores,
         timestamp           |-> 0,
         metadata            |->
             [total_fields       |-> Len(field_scores),
              high_trust_fields  |->
                  CountAtLeast(field_scores, 90),
              medium_trust_fields |->
                  CountBetween(field_scores, 75, 90),
              low_trust_fields   |->
                  CountBelow(field_scores, 75)]]

\* round(x, 2): the nearest hundredth, a tie going to the even one.
Round2(x) ==
    LET q == (x.num * 100) \div x.den
        r == (x.num * 100) % x.den
        h == IF 2 * r < x.den THEN q
             ELSE IF 2 * r > x.den THEN q + 1
             ELSE IF q % 2 = 0 THEN q ELSE q + 1
    IN  Frac(h, 100)

\* '; '.join(texts)
RECURSIVE JoinTexts(_)
JoinTexts(texts) ==
    IF Len(texts) = 1 THEN Head(texts)
    ELSE Head(texts) \o "; " \o JoinTexts(Tail(texts))

\* The keys of the record dict of to_dataframe, in insertion order.
ExportColumns ==
    <<"Dataset", "Field_Name", "Trust_Score", "Grade", "Color",
      "Completeness", "Validity", "Anomaly_Free", "Freshness", "Sample_Size",
      "Last_Validated", "Warnings", "Reasons">>

\* DatasetTrustReport.to_dataframe(): pd.DataFrame(records); of an empty
\* list of records pandas makes a frame without rows and without columns.
to_dataframe(rep) ==
    LET records ==
            [i \in 1..Len(rep.field_scores) |->
                LET score == rep.field_scores[i]
                IN  [Dataset        |-> rep.dataset_name,
                     Field_Name     |-> score.field_name,
                     Trust_Score    |-> Round2(score.trust_score),
                     Grade          |-> get_grade(score.trust_score),
                     Color          |-> get_color(score.trust_score),
                     Completeness   |-> Round2(score.completeness_score),
                     Validity       |-> Round2(score.validity_score),
                     Anomaly_Free   |-> Round2(score.anomaly_score),
                     Freshness      |-> Round2(score.freshness_score),
                     Sample_Size    |-> score.sample_size,
                     Last_Validated |-> score.last_validated,
                     Warnings       |-> IF score.warnings # <<>>
                                        THEN JoinTexts(score.warnings)
                                        ELSE "None",
                     Reasons        |-> IF score.reasons # <<>>
                                        THEN JoinTexts(score.reasons)
                                        ELSE "Good quality"]]
    IN  [columns |-> IF records = <<>> THEN <<>> ELSE ExportColumns,
         records |-> records]

(***************************************************************************)
(* The datasets and calls of the detection specification                   *)
(***************************************************************************)
TailCells == {Outlier, NaN}

TailsUpTo(k) == UNION {[1..m -> TailCells] : m \in 0..k}

\* Columns of n cells: Base repeated, then at most k cells that vary.
GeneratedColumns(n, k) ==
    {Repeat(Base, n - Len(t)) \o t : t \in {u \in TailsUpTo(k) : Len(u) <= n}}

\* The fixtures of tests/test_anomaly_detection.py.
df_with_outliers ==
    DataFrame(<<"value", "score">>, <<"int64", "int64">>,
              << <<10, 12, 11, 13, 100, 12, 11>>,
                 <<50, 52, 51, 53, 500, 52, 51>> >>, 7)

clean_df ==
    DataFrame(<<"value", "score">>, <<"int64", "int64">>,
              << <<10, 12, 11, 13, 12, 11, 10>>,
                 <<50, 52, 51, 53, 52, 51, 50>> >>, 7)

FrameLengths == (0..SmallRows) \cup {MaxRows}

DetectFrames ==
    {DataFrame(<<>>, <<>>, <<>>, 0), df_with_outliers, clean_df}
    \cup UNION {
        {DataFrame(<<"value">>, <<"float64">>, <<c>>, n) :
            c \in GeneratedColumns(n, MaxTail)}
        \cup {DataFrame(<<"value", "score">>, <<"float64", "int64">>,
                        <<c, [i \in 1..n |-> IF i = 1 THEN Outlier ELSE Base]>>, n) :
            c \in GeneratedColumns(n, MaxTail)}
        \cup {DataFrame(<<"label", "value">>, <<"object", "float64">>,
                        <<Repeat(0, n), c>>, n) :
            c \in GeneratedColumns(n, 1)}
        \cup {DataFrame(<<"label">>, <<"object">>, <<Repeat(0, n)>>, n)}
        : n \in FrameLengths}

\* Rows a and b (labels) hold the same cells in every numeric column after
\* imputation: the fitted forest's predict is a function of the sample, so
\* fit_predict gives both rows the same label.
SameFeatures(frame, a, b) ==
    \A j \in numeric_cols(frame) :
        Imputed2(frame, j)[a + 1] = Imputed2(frame, j)[b + 1]

\* What scikit-learn can do on a frame: label at most MaxForestFlags rows
\* anomalous, equal rows alike, or reject input in which NaN is left after
\* imputation.
ForestOutcomes(frame, skl) ==
    IF ~skl \/ numeric_cols(frame) = {} \/ frame.length = 0
    THEN {[raises |-> FALSE, mask |-> {}]}
    ELSE {[raises |-> FALSE, mask |-> m] :
             m \in {r \in SUBSET RowsOf(frame) :
                       /\ Cardinality(r) <= MaxForestFlags
                       /\ \A a \in r : \A b \in RowsOf(frame) \ r :
                              ~SameFeatures(frame, a, b)}}
         \cup (IF HasAllMissingNumeric(frame)
               THEN {[raises |-> TRUE, mask |-> {}]}
               ELSE {})

Multipliers2 == {OUTLIER_IQR_MULTIPLIER_HALVES, 6}

Thresholds2 == {2, 4, ZSCORE_DEFAULT_THRESHOLD_HALVES, 10}

Votings == KnownVoting \cup {"weighted"}

NoCall ==
    [fn |-> "none", multiplier2 |-> 0, threshold2 |-> 0,
     use_isolation_forest |-> FALSE, detectors |-> <<>>, voting |-> ""]

\* No scoring call made, no trust report held.
NoScoring ==
    [made |-> FALSE, validation_result |-> [given |-> FALSE, errors |-> <<>>, warnings |-> <<>>],
     anomaly_report |-> [given |-> FALSE, report |-> NoReport],
     date_column |-> None, dataset_name |-> "", threshold |-> 0]

NoTrust ==
    [dataset_name |-> "", overall_trust_score |-> NaNScore, field_scores |-> <<>>,
     timestamp |-> 0,
     metadata |-> [total_fields |-> 0, high_trust_fields |-> 0,
                   medium_trust_fields |-> 0, low_trust_fields |-> 0]]

\* A database in which _init_db has created the empty table.
EmptyStore == [rows |-> <<>>, seq |-> 0]

\* Midnight UTC on a machine whose local time is UTC.
NoClock == [utc |-> 0, tz |-> 0]

\* No store operation made.
NoResult ==
    [fn |-> "none", report |-> NoTrust, dataset_name |-> "", field_name |-> None,
     days |-> 0, raised |-> "none", failed_at |-> 0, rows |-> <<>>,
     retry |-> "none", before |-> <<>>, columns |-> <<>>]

\* No caller is saving concurrently.
NoWriters == <<>>

InitDetect ==
    /\ df \in DetectFrames
    /\ sklearn \in BOOLEAN
    /\ forest \in ForestOutcomes(df, sklearn)
    /\ call = NoCall
    /\ report = NoReport
    /\ raised = "none"
    /\ emitted = <<>>
    /\ scoring = NoScoring
    /\ trust = NoTrust
    /\ store = EmptyStore
    /\ clock = NoClock
    /\ result = NoResult
    /\ writers = NoWriters

\* The caller is single-threaded: it makes a call when it holds no result
\* of an earlier one.
Idle == call.fn = "none"

Outcome(o) ==
    /\ Idle
    /\ report' = o.report
    /\ raised' = o.raised
    /\ emitted' = o.emitted
    /\ UNCHANGED <<writers, df, sklearn, forest, scoring, trust, store, clock, result>>

\* IQRAnomalyDetector(multiplier).detect(df)
CallIQR ==
    \E m2 \in Multipliers2 :
        /\ call' = [NoCall EXCEPT !.fn = "iqr", !.multiplier2 = m2]
        /\ Outcome(IQRDetect(df, m2))

\* ZScoreAnomalyDetector(threshold).detect(df)
CallZScore ==
    \E t2 \in Thresholds2 :
        /\ call' = [NoCall EXCEPT !.fn = "zscore", !.threshold2 = t2]
        /\ Outcome(ZScoreDetect(df, t2))

\* IsolationForestDetector().detect(df)
CallIsolationForest ==
    /\ call' = [NoCall EXCEPT !.fn = "isolation_forest"]
    /\ Outcome(IsolationForestDetect(df, sklearn, forest))

\* AnomalyDetectorEnsemble(use_iqr, use_zscore, use_isolation_forest,
\* voting).detect(df)
CallEnsemble ==
    \E use_iqr \in BOOLEAN, use_zscore \in BOOLEAN,
       use_isolation_forest \in BOOLEAN, voting \in Votings :
        LET detectors == EnsembleDetectors(use_iqr, use_zscore,
                                           use_isolation_forest, sklearn)
        IN  /\ call' = [NoCall EXCEPT !.fn = "ensemble",
                                     !.use_isolation_forest = use_isolation_forest,
                                     !.detectors = detectors,
                                     !.voting = voting]
            /\ Outcome(EnsembleDetect(df, detectors, voting, sklearn, forest))

\* The caller drops the result of the last call and is ready for the next.
Discard ==
    /\ ~Idle
    /\ call' = NoCall
    /\ report' = NoReport
    /\ raised' = "none"
    /\ emitted' = <<>>
    /\ UNCHANGED <<writers, df, sklearn, forest, scoring, trust, store, clock, result>>

NextDetect ==
    CallIQR \/ CallZScore \/ CallIsolationForest \/ CallEnsemble \/ Discard

SpecDetect == InitDetect /\ [][NextDetect]_vars

(***************************************************************************)
(* The datasets and calls of the scoring specification                     *)
(***************************************************************************)
\* Ages in days of the newest timestamp of a date column.
AgeSamples == {0 - 1, 0, 1, 2, 7, 8, 30, 31, 45, 60, 61}

FRESHNESS_THRESHOLD_DEFAULT == 7

FreshnessThresholds == {FRESHNESS_THRESHOLD_DEFAULT, 30}

\* n cells, the first m missing, the others v.
MissingFirst(n, m, v) == [i \in 1..n |-> IF i <= m THEN NaN ELSE v]

\* The second column of a scored frame of n rows: name, dtype, cells.
SecondColumns(n) ==
    {<<"label", "object", Repeat(1, n)>>,
     <<"label", "object", Repeat(0 - 8, n)>>,
     <<"ts", "datetime64", Repeat(NaN, n)>>,
     <<"ts", "datetime64tz", Repeat(0 - 8, n)>>}
    \cup {<<"ts", "datetime64", Repeat(0 - a, n)>> : a \in AgeSamples}

\* Twenty orders: order_id complete, revenue near 1000 with 3 of 20 cells
\* (15%) missing and the one extreme cell 100000.
orders_df ==
    DataFrame(<<"order_id", "revenue">>, <<"int64", "float64">>,
              << [i \in 1..20 |-> i],
                 <<NaN, 980, 990, 1000, 1010, 1020, NaN, 980, 990, 1000,
                   1010, 1020, 990, 1000, NaN, 1010, 1000, 995, 1005, 100000>> >>,
              20)

TrustFrames ==
    {DataFrame(<<>>, <<>>, <<>>, 0), orders_df}
    \cup UNION {
        {DataFrame(<<"value">>, <<"float64">>, <<MissingFirst(n, m, Base)>>, n) :
            m \in 0..n}
        \cup {DataFrame(<<"value", c[1]>>, <<"float64", c[2]>>,
                        <<MissingFirst(n, m, Base), c[3]>>, n) :
            m \in 0..n, c \in SecondColumns(n)}
        : n \in 0..MaxTrustRows}

\* Entries as DataValidator writes them (utils/validation.py).
ValueRangeError(col) ==
    [check |-> "value_range", column |-> col, severity |-> "error",
     details |-> "'violations': 3, 'min_value': 0, ",
     message |-> "Column '" \o col \o "' has 3 values below minimum 0"]

DataTypeWarning(col) ==
    [check |-> "data_type", column |-> col, severity |-> "warning",
     details |-> "'expected': 'int', 'actual': 'object', ",
     message |-> "Column '" \o col \o "' type mismatch: expected int, got object"]

DuplicatesWarning ==
    [check |-> "duplicates", column |-> None, severity |-> "warning",
     details |-> "'count': 2, 'percentage': 50.0, ",
     message |-> "Found 2 duplicate rows (50.0% of data)"]

ValidationResults ==
    {[given |-> FALSE, errors |-> <<>>, warnings |-> <<>>]}
    \cup {[given |-> TRUE,
           errors |-> Repeat(ValueRangeError("value"), ke),
           warnings |-> Repeat(DataTypeWarning("value"), kw)] :
             ke \in 0..MaxErrors, kw \in {0, MaxWarnings}}
    \cup {[given |-> TRUE,
           errors |-> <<ValueRangeError("ts")>>,
           warnings |-> <<DataTypeWarning("ts"), DuplicatesWarning>>]}

\* Anomaly findings a caller can pass for a frame: none, or an IQR finding
\* that counts c anomalies in column "value".
AnomalyReports(frame) ==
    {[given |-> FALSE, report |-> NoReport]}
    \cup {[given |-> TRUE,
           report |-> [AnomalyReport("IQR") EXCEPT
                          !.anomalies_by_column =
                              [col \in (IF c = 0 THEN {} ELSE {"value"}) |-> c],
                          !.total_anomalies = c]] :
             c \in 0..(frame.length + 1)}

InitTrust ==
    /\ df \in TrustFrames
    /\ sklearn = FALSE
    /\ forest = [raises |-> FALSE, mask |-> {}]
    /\ call = NoCall
    /\ report = NoReport
    /\ raised = "none"
    /\ emitted = <<>>
    /\ scoring = NoScoring
    /\ trust = NoTrust
    /\ store = EmptyStore
    /\ clock = NoClock
    /\ result = NoResult
    /\ writers = NoWriters

\* TrustScoreCalculator(freshness_threshold_days).calculate_dataset_trust(
\*     df, validation_result, anomaly_report, date_column, dataset_name)
CalculateDatasetTrust ==
    /\ ~scoring.made
    /\ \E validation_result \in ValidationResults,
          anomaly_report \in AnomalyReports(df),
          date_column \in {None, "value", "ts"},
          threshold \in FreshnessThresholds :
            /\ scoring' = [made |-> TRUE,
                           validation_result |-> validation_result,
                           anomaly_report |-> anomaly_report,
                           date_column |-> date_column,
                           dataset_name |-> "dataset",
                           threshold |-> threshold]
            /\ trust' = calculate_dataset_trust(df, validation_result,
                            anomaly_report, date_column, "dataset", threshold)
    /\ UNCHANGED <<writers, df, sklearn, forest, call, report, raised, emitted, store, clock, result>>

\* report = detect_anomalies(df, method='iqr');
\* calculate_trust_scores(df, anomaly_report=report): scoring with the IQR
\* finding of the same dataset and no validation result.
ScoreWithIQRFinding ==
    /\ ~scoring.made
    /\ LET found == IQRDetect(df, OUTLIER_IQR_MULTIPLIER_HALVES)
           validation_result == [given |-> FALSE, errors |-> <<>>, warnings |-> <<>>]
           anomaly_report == [given |-> TRUE, report |-> found.report]
       IN  /\ found.raised = "none"
           /\ scoring' = [made |-> TRUE,
                          validation_result |-> validation_result,
                          anomaly_report |-> anomaly_report,
                          date_column |-> None,
                          dataset_name |-> "dataset",
                          threshold |-> FRESHNESS_THRESHOLD_DEFAULT]
           /\ trust' = calculate_dataset_trust(df, validation_result,
                           anomaly_report, None, "dataset",
                           FRESHNESS_THRESHOLD_DEFAULT)
    /\ UNCHANGED <<writers, df, sklearn, forest, call, report, raised, emitted, store, clock, result>>

\* table = report.to_dataframe() on the report the caller holds.
ToDataFrame ==
    /\ scoring.made
    /\ result.fn = "none"
    /\ LET table == to_dataframe(trust)
       IN  result' = [NoResult EXCEPT !.fn = "to_dataframe",
                                      !.report = trust,
                                      !.dataset_name = trust.dataset_name,
                                      !.columns = table.columns,
                                      !.rows = table.records]
    /\ UNCHANGED <<writers, df, sklearn, forest, call, report, raised, emitted, scoring, trust, store, clock>>

\* The caller drops the trust report and its table.
DiscardTrust ==
    /\ scoring.made
    /\ scoring' = NoScoring
    /\ trust' = NoTrust
    /\ result' = NoResult
    /\ UNCHANGED <<writers, df, sklearn, forest, call, report, raised, emitted, store, clock>>

NextTrust == CalculateDatasetTrust \/ ScoreWithIQRFinding \/ DiscardTrust

SpecTrust == InitTrust /\ [][NextTrust]_vars

\* The datasets whose reports are exported: without columns, the twenty
\* orders, and two columns of one row.
ExportFrames ==
    {f \in TrustFrames :
        \/ f.columns = <<>>
        \/ f = orders_df
        \/ f.length = 1 /\ Len(f.columns) = 2}

InitExport ==
    /\ df \in ExportFrames
    /\ sklearn = FALSE
    /\ forest = [raises |-> FALSE, mask |-> {}]
    /\ call = NoCall
    /\ report = NoReport
    /\ raised = "none"
    /\ emitted = <<>>
    /\ scoring = NoScoring
    /\ trust = NoTrust
    /\ store = EmptyStore
    /\ clock = NoClock
    /\ result = NoResult
    /\ writers = NoWriters

NextExport ==
    CalculateDatasetTrust \/ ScoreWithIQRFinding \/ ToDataFrame \/ DiscardTrust

SpecExport == InitExport /\ [][NextExport]_vars

(***************************************************************************)
(* Properties of the detectors and the ensemble                            *)
(***************************************************************************)
EnsembleReturned ==
    call.fn = "ensemble" /\ call.detectors # <<>> /\ raised = "none"

\* The rows the ensemble of the last call flags under another voting rule.
RowsUnder(voting) ==
    EnsembleDetect(df, call.detectors, voting, sklearn, forest).report.anomaly_indices

\* The detectors of the last call that flag row i.
Flagging(i) ==
    {d \in 1..Len(call.detectors) :
        i \in MemberDetect(call.detectors[d], df, sklearn, forest).report.anomaly_indices}

\* C3: for the same dataset and the same non-empty detector set, the rows
\* flagged under unanimous voting are among those flagged under majority
\* voting, which are among those flagged under any voting.
C3_VotingInclusion ==
    EnsembleReturned =>
        /\ RowsUnder("unanimous") \subseteq RowsUnder("majority")
        /\ RowsUnder("majority") \subseteq RowsUnder("any")
        /\ call.voting = "unanimous" =>
              report.anomaly_indices \subseteq RowsUnder("majority")
        /\ call.voting = "majority" =>
              /\ RowsUnder("unanimous") \subseteq report.anomaly_indices
              /\ report.anomaly_indices \subseteq RowsUnder("any")
        /\ call.voting = "any" =>
              RowsUnder("majority") \subseteq report.anomaly_indices

\* A majority run of three detectors in which the three rules all differ.
C3_Witness ==
    /\ EnsembleReturned
    /\ call.voting = "majority"
    /\ Len(call.detectors) = 3
    /\ RowsUnder("unanimous") # report.anomaly_indices
    /\ RowsUnder("any") # report.anomaly_indices
    /\ report.anomaly_indices # {}

\* C4: under majority voting a row is flagged iff strictly more than half
\* of the detectors that ran flag it; exactly half is not enough.
C4_MajorityStrict ==
    (EnsembleReturned /\ call.voting = "majority") =>
        \A i \in RowsOf(df) :
            i \in report.anomaly_indices
                <=> Cardinality(Flagging(i)) >
                        Len(call.detectors) - Cardinality(Flagging(i))

\* Two detectors, a row flagged by one of them only, left out.
C4_Witness ==
    /\ EnsembleReturned
    /\ call.voting = "majority"
    /\ Len(call.detectors) = 2
    /\ \E i \in RowsOf(df) :
          Cardinality(Flagging(i)) = 1 /\ i \notin report.anomaly_indices

EmptyEnsembleCalled == call.fn = "ensemble" /\ call.detectors = <<>>

\* C5 as stated: an ensemble with no detector is rejected, detect returns
\* no finding for it.
C5_EmptyDetectorSetRejected ==
    EmptyEnsembleCalled => raised # "none"

\* C5 amended: an ensemble with no detector runs nothing and returns,
\* without error, the empty finding named "Ensemble (empty)".
C5_EmptyDetectorSetEmptyFinding ==
    EmptyEnsembleCalled =>
        /\ raised = "none"
        /\ report = AnomalyReport("Ensemble (empty)")

\* An ensemble left without detector because scikit-learn is missing.
C5_Witness ==
    /\ EmptyEnsembleCalled
    /\ ~sklearn
    /\ df.length > 0
    /\ report.method = "Ensemble (empty)"

UnknownVotingReturned == EnsembleReturned /\ call.voting \notin KnownVoting

C7_ZScoreMonotone ==
    (call.fn = "zscore" /\ raised = "none") =>
        \A t2 \in Thresholds2 :
            LET other == ZScoreDetect(df, t2).report
            IN  /\ t2 >= call.threshold2 =>
                      /\ other.anomaly_indices \subseteq report.anomaly_indices
                      /\ other.total_anomalies <= report.total_anomalies
                /\ t2 <= call.threshold2 =>
                      /\ report.anomaly_indices \subseteq other.anomaly_indices
                      /\ report.total_anomalies <= other.total_anomalies

\* The test's case: threshold 2.0 flags a row that threshold 5.0 does not.
C7_Witness ==
    /\ call.fn = "zscore" /\ raised = "none"
    /\ call.threshold2 = 4
    /\ report.total_anomalies > ZScoreDetect(df, 10).report.total_anomalies

\* The cell of rank r (from 0) among the non-missing cells of a column.
RankedCell(cells, r) ==
    CHOOSE v \in {cells[i] : i \in 1..Len(cells)} :
        /\ Cardinality({i \in 1..Len(cells) : cells[i] < v}) <= r
        /\ r < Cardinality({i \in 1..Len(cells) : cells[i] <= v})

\* Four times the quartile q4/4 of the cells, by linear interpolation
\* between the neighbouring ranks.
Quartile4(cells, q4) ==
    LET h  == q4 * (Len(cells) - 1)
        lo == h \div 4
        hi == IF lo + 1 < Len(cells) THEN lo + 1 ELSE lo
    IN  4 * RankedCell(cells, lo)
            + (h % 4) * (RankedCell(cells, hi) - RankedCell(cells, lo))

\* Cell v lies outside [Q1 - 1.5*IQR, Q3 + 1.5*IQR] of the cells.
OutsideFences(v, cells) ==
    LET q1 == Quartile4(cells, 1)
        q3 == Quartile4(cells, 3)
    IN  \/ 8 * v < 2 * q1 - 3 * (q3 - q1)
        \/ 8 * v > 2 * q3 + 3 * (q3 - q1)

\* C8: the IQR detector with multiplier 1.5 flags a row exactly when a
\* numeric cell of it lies outside [Q1 - 1.5*IQR, Q3 + 1.5*IQR]; it flags
\* the row holding 100 of [10,12,11,13,100,12,11] and no row of
\* [10,12,11,13,12,11,10].
C8_IQRFences ==
    (call.fn = "iqr" /\ call.multiplier2 = 3 /\ raised = "none") =>
        /\ \A i \in RowsOf(df) :
              i \in report.anomaly_indices
                  <=> \E j \in numeric_cols(df) :
                         /\ ~IsNaN(df.data[j][i + 1])
                         /\ OutsideFences(df.data[j][i + 1], dropna(df.data[j]))
        /\ df = df_with_outliers =>
              /\ 4 \in report.anomaly_indices
              /\ "value" \in DOMAIN report.anomalies_by_column
        /\ df = clean_df => report.anomaly_indices = {}

C8_Witness ==
    /\ call.fn = "iqr" /\ call.multiplier2 = 3 /\ raised = "none"
    /\ df = df_with_outliers
    /\ report.anomaly_indices = {4}

\* C9: on a dataset without numeric column each of the three detectors
\* returns the empty finding and raises nothing.  (An isolation forest
\* exists only where scikit-learn does.)
C9_NoNumericColumns ==
    (/\ call.fn \in {"iqr", "zscore", "isolation_forest"}
     /\ numeric_cols(df) = {}
     /\ call.fn = "isolation_forest" => sklearn) =>
        /\ raised = "none"
        /\ report.total_anomalies = 0
        /\ report.anomaly_percentage.num = 0
        /\ report.anomalies_by_column = EmptyMap
        /\ report.anomaly_indices = {}

\* The isolation forest on a text column without rows.
C9_Witness ==
    /\ call.fn = "isolation_forest" /\ sklearn
    /\ df.columns = <<"label">> /\ df.length = 0
    /\ report.method = "Isolation Forest"

\* Numeric column j is all missing or has no spread.
DegenerateColumn(j) ==
    \/ dropna(df.data[j]) = <<>>
    \/ ScaledVariance(dropna(df.data[j])) = 0

\* C10 as stated: IQR, z-score and ensemble detection on a dataset with a
\* numeric column of zero rows, of missing cells only or of zero variance
\* complete without error and flag nothing for that column.
C10_DegenerateNeverRaises ==
    (/\ call.fn \in {"iqr", "zscore", "ensemble"}
     /\ \E j \in numeric_cols(df) : DegenerateColumn(j)) =>
        /\ raised = "none"
        /\ \A j \in numeric_cols(df) :
              DegenerateColumn(j) =>
                  df.columns[j] \notin DOMAIN report.anomalies_by_column

(***************************************************************************)
(* Properties of the trust scores                                          *)
(***************************************************************************)
FieldScores == {trust.field_scores[i] : i \in 1..Len(trust.field_scores)}

InPercentRange(x) == FLeq(Whole(0), x) /\ FLeq(x, Whole(100))

SubScores(s) ==
    {s.completeness_score, s.validity_score, s.anomaly_score, s.freshness_score}

\* C1: whatever the dataset, the validation result, the anomaly finding
\* and the freshness column, every trust score and each of its four
\* sub-scores lies in 0..100.
C1_ScoresInRange ==
    scoring.made =>
        \A s \in FieldScores :
            /\ InPercentRange(s.trust_score)
            /\ \A x \in SubScores(s) : InPercentRange(x)

\* A field low on every rule: half its cells missing, validity and anomaly
\* deductions capped, timestamps decades old.
C1_Witness ==
    /\ scoring.made
    /\ \E s \in FieldScores :
          /\ s.completeness_score = Whole(50)
          /\ s.validity_score = Whole(25)
          /\ s.anomaly_score = Whole(50)
          /\ s.freshness_score = Whole(0)
          /\ s.trust_score = Whole(35)

\* C2: trust_score = 0.30*completeness + 0.30*validity
\* + 0.25*anomaly_freedom + 0.15*freshness, the weights sum to 1, and so
\* trust_score lies between the least and the greatest sub-score.
C2_ConvexCombination ==
    scoring.made =>
        \A s \in FieldScores :
            /\ FTimes(s.trust_score, 100) =
                  FAdd(FAdd(FTimes(s.completeness_score, 30),
                            FTimes(s.validity_score, 30)),
                       FAdd(FTimes(s.anomaly_score, 25),
                            FTimes(s.freshness_score, 15)))
            /\ \E lo \in SubScores(s), hi \in SubScores(s) :
                  /\ \A x \in SubScores(s) : FLeq(lo, x) /\ FLeq(x, hi)
                  /\ FLeq(lo, s.trust_score)
                  /\ FLeq(s.trust_score, hi)

\* A field whose four sub-scores all differ.
C2_Witness ==
    /\ scoring.made
    /\ \E s \in FieldScores :
          /\ Cardinality(SubScores(s)) = 4
          /\ \A x \in SubScores(s) : x # s.trust_score

\* C11 (as stated): scoring a dataset with no columns returns a report
\* with no field score and overall_trust_score 0, not NaN.
C11_EmptyDatasetOverallZero ==
    (scoring.made /\ df.columns = <<>>) =>
        /\ trust.field_scores = <<>>
        /\ trust.overall_trust_score = Whole(0)

\* The scored fields of a naive datetime column "ts" designated as the date
\* column under the default threshold, each with the age in days of its
\* newest timestamp.
DatedFields ==
    {<<trust.field_scores[j], 0 - MaxDate(df.data[j])>> :
        j \in {k \in 1..Len(df.columns) :
                  /\ scoring.made
                  /\ scoring.threshold = FRESHNESS_THRESHOLD_DEFAULT
                  /\ scoring.date_column = "ts"
                  /\ df.columns[k] = "ts"
                  /\ df.dtypes[k] = "datetime64"
                  /\ ~IsNaN(MaxDate(df.data[k]))}}

\* The freshness score of a date column whose newest timestamp is a days old.
FreshnessAtAge(a) ==
    calculate_freshness_score(<<0 - a>>, "datetime64", "ts",
                              FRESHNESS_THRESHOLD_DEFAULT)

\* C12 (as stated): under the default threshold the freshness score is 100
\* when the newest timestamp is now, strictly decreasing in the age of the
\* newest timestamp, and 0 once the data is 30 or more days stale.
C12_FreshnessStrictDecayZeroAt30 ==
    \A f \in DatedFields :
        /\ f[2] = 0 => f[1].freshness_score = Whole(100)
        /\ \A b \in AgeSamples :
              (0 <= f[2] /\ f[2] < b) =>
                  FLess(FreshnessAtAge(b), f[1].freshness_score)
        /\ f[2] >= 30 => f[1].freshness_score = Whole(0)

\* C12 (amended): under the default threshold the freshness score is 100
\* when the newest timestamp is now or at most one day old, never increases
\* with the age of the newest timestamp and strictly decreases from 1 to 60
\* days, is 70 at 7 days, 40 at 30 days, and 0 once the data is 60 or more
\* days stale.
C12_FreshnessDecay ==
    \A f \in DatedFields :
        /\ f[2] <= 1 => f[1].freshness_score = Whole(100)
        /\ \A b \in AgeSamples :
              f[2] < b =>
                  /\ FLeq(FreshnessAtAge(b), f[1].freshness_score)
                  /\ (1 <= f[2] /\ b <= 60) =>
                        FLess(FreshnessAtAge(b), f[1].freshness_score)
        /\ f[2] = 7 => f[1].freshness_score = Whole(70)
        /\ f[2] = 30 => f[1].freshness_score = Whole(40)
        /\ f[2] >= 60 <=> f[1].freshness_score = Whole(0)

\* A date column 31 days stale is scored strictly between 0 and 40.
C12_Witness ==
    \E f \in DatedFields :
        /\ f[2] = 31
        /\ FLess(Whole(0), f[1].freshness_score)
        /\ FLess(f[1].freshness_score, Whole(40))

(***************************************************************************)
(* TrustScoreStore and the export to Tableau                               *)
(***************************************************************************)
\* Time is counted in ticks.  CURRENT_TIMESTAMP has the resolution of one
\* tick and a day has TicksPerDay of them.
TicksPerDay == 4

\* The clock runs from 0 to MaxClock and the table holds MaxStored rows.
MaxClock == 2
MaxStored == 4

\* The row one INSERT of save_report writes for field score s: id from
\* AUTOINCREMENT, timestamp from DEFAULT CURRENT_TIMESTAMP (UTC).
StoredRow(rep, s, id, ts) ==
    [id                 |-> id,
     dataset_name       |-> rep.dataset_name,
     field_name         |-> s.field_name,
     trust_score        |-> s.trust_score,
     completeness_score |-> s.completeness_score,
     validity_score     |-> s.validity_score,
     anomaly_score      |-> s.anomaly_score,
     freshness_score    |-> s.freshness_score,
     grade              |-> get_grade(s.trust_score),
     color              |-> get_color(s.trust_score),
     sample_size        |-> s.sample_size,
     timestamp          |-> ts,
     reasons            |-> s.reasons,
     warnings           |-> s.warnings]

\* save_report with conn.commit() moved into the loop, after each INSERT.
save_report_commit_each(st, rep, utc, fail_at, cross) ==
    LET n     == Len(rep.field_scores)
        done  == IF fail_at = 0 THEN n
                 ELSE IF fail_at > n THEN n ELSE fail_at - 1
        added == [k \in 1..done |->
                     StoredRow(rep, rep.field_scores[k], st.seq + k,
                               IF k > cross THEN utc + 1 ELSE utc)]
    IN  [store  |-> [rows |-> st.rows \o added, seq |-> st.seq + done],
         raised |-> IF fail_at = 0 THEN "none" ELSE "OperationalError"]

\* TrustScoreStore.save_report(report) at time utc.  fail_at = 0: every
\* statement succeeds; 1..n: the fail_at-th INSERT raises; n + 1: commit
\* raises.  The INSERTs after the cross-th run in the next tick.  All
\* INSERTs run in one transaction that only the final conn.commit() makes
\* durable: when a statement raises, the connection is dropped without a
\* commit and SQLite rolls the transaction back.
save_report(st, rep, utc, fail_at, cross) ==
    LET n     == Len(rep.field_scores)
        added == [k \in 1..n |->
                     StoredRow(rep, rep.field_scores[k], st.seq + k,
                               IF k > cross THEN utc + 1 ELSE utc)]
    IN  IF fail_at = 0
        THEN [store  |-> [rows |-> st.rows \o added, seq |-> st.seq + n],
              raised |-> "none"]
        ELSE [store |-> st, raised |-> "OperationalError"]

\* _init_db with DROP TABLE IF EXISTS before the CREATE TABLE.
init_db_recreate(st) == EmptyStore

\* TrustScoreStore(db_path)._init_db() on a database that holds the table:
\* CREATE TABLE IF NOT EXISTS and CREATE INDEX IF NOT EXISTS leave the
\* table, its rows and the AUTOINCREMENT counter as they are.
init_db(st) == [rows |-> st.rows, seq |-> st.seq]

\* SELECT field_name, MAX(timestamp) ... WHERE dataset_name = ? GROUP BY
\* field_name: the greatest timestamp stored for a field of the dataset.
MaxTimestamp(st, dataset_name, field_name) ==
    LET stamps == {st.rows[i].timestamp : i \in
                      {k \in 1..Len(st.rows) :
                          /\ st.rows[k].dataset_name = dataset_name
                          /\ st.rows[k].field_name = field_name}}
    IN  CHOOSE t \in stamps : \A u \in stamps : u <= t

\* TrustScoreStore.get_latest_scores(dataset_name): the rows of the dataset
\* whose timestamp equals the greatest timestamp of their field.
get_latest_scores(st, dataset_name) ==
    SelectSeq(st.rows,
              LAMBDA r : /\ r.dataset_name = dataset_name
                         /\ r.timestamp =
                               MaxTimestamp(st, dataset_name, r.field_name))

\* ORDER BY timestamp DESC.  SQL leaves the order of rows of one timestamp
\* open; SQLite yields them by descending or by ascending id, as the query
\* plan has it.
RECURSIVE OrderByTimestampDesc(_, _)
OrderByTimestampDesc(rows, ties_desc) ==
    IF rows = <<>> THEN <<>>
    ELSE LET rest  == OrderByTimestampDesc(Tail(rows), ties_desc)
             r     == Head(rows)
             After(x) == \/ x.timestamp > r.timestamp
                         \/ /\ x.timestamp = r.timestamp
                            /\ IF ties_desc THEN x.id > r.id ELSE x.id < r.id
         IN  SelectSeq(rest, After) \o <<r>>
                 \o SelectSeq(rest, LAMBDA x : ~After(x))

\* TrustScoreStore.get_historical_scores(dataset_name, field_name, days).
\* cutoff_date is datetime.now() - timedelta(days): local time, while the
\* timestamp column holds UTC.  Both are compared as text: a stored
\* timestamp of the cutoff's own tick is a prefix of the cutoff text and
\* sorts below it when now() has a fraction of a second (micro).
get_historical_scores(st, dataset_name, field_name, days, clk, micro, ties_desc) ==
    LET cutoff_date == clk.utc + clk.tz - days * TicksPerDay
        Selected(r) ==
            /\ r.dataset_name = dataset_name
            /\ field_name \in {None, ""} \/ r.field_name = field_name
            /\ \/ r.timestamp > cutoff_date
               \/ r.timestamp = cutoff_date /\ ~micro
    IN  OrderByTimestampDesc(SelectSeq(st.rows, Selected), ties_desc)

\* TrustHeatmapGenerator.generate_tableau_csv(report): the default path.
generate_tableau_csv(rep) == "trust_scores_" \o rep.dataset_name \o ".csv"

\* export_trust_scores_for_tableau that catches and drops the exception of
\* save_report.
export_trust_scores_for_tableau_swallow(st, rep, save_to_db, utc, fail_at, cross) ==
    LET saved == save_report(st, rep, utc, fail_at, cross)
    IN  IF save_to_db
        THEN [store |-> saved.store, raised |-> "none",
              csv_path |-> generate_tableau_csv(rep)]
        ELSE [store |-> st, raised |-> "none",
              csv_path |-> generate_tableau_csv(rep)]

\* export_trust_scores_for_tableau(report, save_to_db): writes the CSV,
\* then saves to the store; an exception of save_report is not caught.
export_trust_scores_for_tableau(st, rep, save_to_db, utc, fail_at, cross) ==
    LET saved == save_report(st, rep, utc, fail_at, cross)
    IN  IF save_to_db
        THEN [store |-> saved.store, raised |-> saved.raised,
              csv_path |-> IF saved.raised = "none"
                           THEN generate_tableau_csv(rep) ELSE None]
        ELSE [store |-> st, raised |-> "none",
              csv_path |-> generate_tableau_csv(rep)]

(***************************************************************************)
(* The reports and calls of the store specification                        *)
(***************************************************************************)
\* Offsets of local time from UTC, in ticks.
TzOffsets == {0 - 2, 0, 2}

WindowDays == {0, 1}

DatasetNames == {"sales", "other"}

\* Datasets a caller scores and saves: a clean one, the same columns with
\* half of "value" missing, and one without columns; a one-column dataset
\* is saved under another name.
StoreFrames ==
    {DataFrame(<<"value", "ts">>, <<"float64", "datetime64">>,
               <<MissingFirst(2, m, Base), Repeat(0, 2)>>, 2) : m \in {0, 1}}
    \cup {DataFrame(<<>>, <<>>, <<>>, 0)}

\* calculate_trust_scores(df, dataset_name = name)
StoreReports ==
    {calculate_dataset_trust(
         f, [given |-> FALSE, errors |-> <<>>, warnings |-> <<>>],
         [given |-> FALSE, report |-> NoReport], None, "sales",
         FRESHNESS_THRESHOLD_DEFAULT) : f \in StoreFrames}
    \cup {calculate_dataset_trust(
              DataFrame(<<"value">>, <<"float64">>, <<Repeat(Base, 2)>>, 2),
              [given |-> FALSE, errors |-> <<>>, warnings |-> <<>>],
              [given |-> FALSE, report |-> NoReport], None, "other",
              FRESHNESS_THRESHOLD_DEFAULT)}

InitStore ==
    /\ df = DataFrame(<<>>, <<>>, <<>>, 0)
    /\ sklearn = FALSE
    /\ forest = [raises |-> FALSE, mask |-> {}]
    /\ call = NoCall
    /\ report = NoReport
    /\ raised = "none"
    /\ emitted = <<>>
    /\ scoring = NoScoring
    /\ trust = NoTrust
    /\ store = EmptyStore
    /\ clock \in {[utc |-> 0, tz |-> z] : z \in TzOffsets}
    /\ result = NoResult
    /\ writers = NoWriters

\* The caller is single-threaded: it starts a store operation when it has
\* dealt with the outcome of the one before.
StoreIdle == result.fn = "none"

\* Time passes between operations.
Tick ==
    /\ StoreIdle
    /\ clock.utc < MaxClock
    /\ clock' = [clock EXCEPT !.utc = @ + 1]
    /\ UNCHANGED <<writers, df, sklearn, forest, call, report, raised, emitted,
                   scoring, trust, store, result>>

\* calculate_trust_scores(...): the caller holds a new report.
ScoreDataset ==
    /\ StoreIdle
    /\ trust' \in StoreReports \ {trust}
    /\ UNCHANGED <<writers, df, sklearn, forest, call, report, raised, emitted,
                   scoring, store, clock, result>>

\* The write of the held report by store operation fn, started when idle
\* or as the retry of a write that has just failed.  The outcome records
\* the statement that failed and the operation it retries.
Written(fn, out, fail_at, cross) ==
    /\ StoreIdle \/ result.raised # "none"
    /\ trust # NoTrust
    /\ store.seq + Len(trust.field_scores) <= MaxStored
    /\ cross < Len(trust.field_scores) => clock.utc < MaxClock
    /\ store' = out.store
    /\ clock' = [clock EXCEPT !.utc =
                    IF cross < Len(trust.field_scores) THEN @ + 1 ELSE @]
    /\ result' = [NoResult EXCEPT
                     !.fn = fn, !.report = trust,
                     !.dataset_name = trust.dataset_name,
                     !.raised = out.raised,
                     !.failed_at = fail_at,
                     !.retry = IF result.raised # "none" THEN result.fn
                                                          ELSE "none",
                     !.before = store.rows]
    /\ UNCHANGED <<writers, df, sklearn, forest, call, report, raised, emitted,
                   scoring, trust>>

\* The ticks in which the INSERTs of a save can run: all in the tick of the
\* first, or the first cross of them.
Crossings(rep) ==
    {Len(rep.field_scores)} \cup (1..(Len(rep.field_scores) - 1))

\* store.save_report(report)
SaveReport ==
    \E fail_at \in 0..(Len(trust.field_scores) + 1), cross \in Crossings(trust) :
        Written("save", save_report(store, trust, clock.utc, fail_at, cross),
                fail_at, cross)

\* export_trust_scores_for_tableau(report, save_to_db)
ExportTrustScores ==
    \E save_to_db \in BOOLEAN :
        \E fail_at \in 0..(Len(trust.field_scores) + 1), cross \in Crossings(trust) :
            /\ ~save_to_db => (fail_at = 0 /\ cross = Len(trust.field_scores))
            /\ Written("export",
                       export_trust_scores_for_tableau(
                           store, trust, save_to_db, clock.utc, fail_at, cross),
                       fail_at, cross)

\* store.get_latest_scores(dataset_name)
GetLatestScores ==
    /\ StoreIdle
    /\ \E dataset_name \in DatasetNames :
          result' = [NoResult EXCEPT
                        !.fn = "latest", !.dataset_name = dataset_name,
                        !.rows = get_latest_scores(store, dataset_name),
                        !.before = store.rows]
    /\ UNCHANGED <<writers, df, sklearn, forest, call, report, raised, emitted,
                   scoring, trust, store, clock>>

\* store.get_historical_scores(dataset_name, field_name, days)
GetHistoricalScores ==
    /\ StoreIdle
    /\ \E dataset_name \in DatasetNames, field_name \in {None, "value"},
          days \in WindowDays, micro \in BOOLEAN, ties_desc \in BOOLEAN :
            result' = [NoResult EXCEPT
                          !.fn = "history", !.dataset_name = dataset_name,
                          !.field_name = field_name, !.days = days,
                          !.rows = get_historical_scores(
                                       store, dataset_name, field_name, days,
                                       clock, micro, ties_desc),
                          !.before = store.rows]
    /\ UNCHANGED <<writers, df, sklearn, forest, call, report, raised, emitted,
                   scoring, trust, store, clock>>

\* store = TrustScoreStore(): the store is opened again on the same file.
Reopen ==
    /\ StoreIdle
    /\ store' = init_db(store)
    /\ result' = [NoResult EXCEPT !.fn = "open", !.before = store.rows]
    /\ UNCHANGED <<writers, df, sklearn, forest, call, report, raised, emitted,
                   scoring, trust, clock>>

\* The caller has dealt with the outcome of the last operation.
Forget ==
    /\ ~StoreIdle
    /\ result' = NoResult
    /\ UNCHANGED <<writers, df, sklearn, forest, call, report, raised, emitted,
                   scoring, trust, store, clock>>

NextStore ==
    Tick \/ ScoreDataset \/ SaveReport \/ ExportTrustScores
        \/ GetLatestScores \/ GetHistoricalScores \/ Reopen \/ Forget

SpecStore == InitStore /\ [][NextStore]_vars

(***************************************************************************)
(* Claims about the store                                                  *)
(***************************************************************************)
\* The stored rows of a dataset, or of one of its fields.
RowsOfDataset(dataset_name) ==
    {store.rows[i] : i \in {k \in 1..Len(store.rows) :
                               store.rows[k].dataset_name = dataset_name}}

RowsOfField(dataset_name, field_name) ==
    {r \in RowsOfDataset(dataset_name) : r.field_name = field_name}

\* The rows the last query returned.
ReturnedRows == {result.rows[i] : i \in 1..Len(result.rows)}

\* C13 (as stated): after any sequence of saves, also several of one dataset
\* in quick succession, latest(dataset_name) returns exactly one record per
\* distinct field name of the dataset, and that record is the one the most
\* recent save of the field wrote (its scores, grade and colour).
C13_LatestOnePerField ==
    result.fn = "latest" =>
        /\ Len(result.rows) =
              Cardinality({r.field_name : r \in RowsOfDataset(result.dataset_name)})
        /\ \A r \in RowsOfDataset(result.dataset_name) :
              \E x \in ReturnedRows :
                  /\ x.field_name = r.field_name
                  /\ x.dataset_name = result.dataset_name
                  /\ \A y \in RowsOfField(result.dataset_name, r.field_name) :
                        y.id <= x.id

\* The first tick of the trailing window of the last history query.
WindowStart == clock.utc - result.days * TicksPerDay

\* The stored rows the last history query asks for, whatever their age.
AskedRows ==
    {r \in RowsOfDataset(result.dataset_name) :
        result.field_name = None \/ r.field_name = result.field_name}

\* C14 (as stated): history(dataset_name, field_name?, window_days) returns
\* exactly the persisted records of the dataset (of the field, when given)
\* written within the trailing window_days, never one older than the
\* window, newest first.
C14_HistoryWithinWindow ==
    result.fn = "history" =>
        /\ ReturnedRows \subseteq AskedRows
        /\ Len(result.rows) = Cardinality(ReturnedRows)
        /\ \A r \in ReturnedRows : r.timestamp >= WindowStart
        /\ \A r \in AskedRows : r.timestamp > WindowStart => r \in ReturnedRows
        /\ \A i \in 1..Len(result.rows) : \A j \in i..Len(result.rows) :
              result.rows[i].timestamp >= result.rows[j].timestamp

\* The last operation was a save_report of which statement k failed.
SaveFailedAt(k) ==
    /\ result.fn = "save"
    /\ result.failed_at = k

\* The rows of the last write's report stored after the rows held before.
AppendedRows == SubSeq(store.rows, Len(result.before) + 1, Len(store.rows))

\* C15 (as stated): when the write of the k-th field fails, the records of
\* the k-1 fields that save had written remain persisted.
C15_PartialSavePersisted ==
    \A k \in 1..(Len(result.report.field_scores) + 1) :
        SaveFailedAt(k) =>
            /\ Len(AppendedRows) = k - 1
            /\ \A i \in 1..(k - 1) :
                  AppendedRows[i].field_name =
                      result.report.field_scores[i].field_name

\* C15 (amended): save is atomic per report.  When the write of the k-th
\* field, or the commit, fails, the exception reaches the caller and no
\* record of that save is persisted: the table holds what it held before.
C15_FailedSaveRolledBack ==
    \A k \in 1..(Len(result.report.field_scores) + 1) :
        SaveFailedAt(k) =>
            /\ result.raised # "none"
            /\ store.rows = result.before

\* The second INSERT of a save fails on a table that already holds rows.
C15_Witness ==
    /\ SaveFailedAt(2)
    /\ Len(result.report.field_scores) = 2
    /\ result.before # <<>>

\* C16: when the save of an export with save_to_db fails, the exception
\* reaches the caller, who still holds the report as computed; a retry by
\* save_report of that report that succeeds stores one record for each of
\* its fields, with the scores computed before.
C16_ExportFailureRetry ==
    /\ (result.fn = "export" /\ result.failed_at # 0) =>
          /\ result.raised # "none"
          /\ trust = result.report
    /\ (result.fn = "save" /\ result.retry = "export" /\ result.raised = "none") =>
          /\ trust = result.report
          /\ Len(AppendedRows) = Len(trust.field_scores)
          /\ \A i \in 1..Len(trust.field_scores) :
                /\ AppendedRows[i].dataset_name = trust.dataset_name
                /\ AppendedRows[i].field_name = trust.field_scores[i].field_name
                /\ AppendedRows[i].trust_score = trust.field_scores[i].trust_score

\* A two-field report whose export failed at the second INSERT is saved
\* by the retry.
C16_Witness ==
    /\ result.fn = "save"
    /\ result.retry = "export"
    /\ result.raised = "none"
    /\ Len(trust.field_scores) = 2
    /\ Len(AppendedRows) = 2

(***************************************************************************)
(* Claims about the sub-scores                                             *)
(***************************************************************************)
\* The orders dataset was scored with its own IQR finding and no
\* validation result.
OrdersScored ==
    /\ scoring.made
    /\ df = orders_df
    /\ ~scoring.validation_result.given
    /\ scoring.anomaly_report.given
    /\ scoring.anomaly_report.report =
          IQRDetect(orders_df, OUTLIER_IQR_MULTIPLIER_HALVES).report

\* Some text of the list starts with the prefix.
HasTextOf(texts, prefix) ==
    \E i \in 1..Len(texts) :
        /\ Len(texts[i]) >= Len(prefix)
        /\ SubSeq(texts[i], 1, Len(prefix)) = prefix

\* C17 (as stated): order_id scores at least 95, revenue scores lower, and
\* revenue's warnings hold a completeness warning and an anomaly warning.
C17_OrdersBothWarnings ==
    OrdersScored =>
        LET order_id == trust.field_scores[1]
            revenue  == trust.field_scores[2]
        IN  /\ FLeq(Whole(95), order_id.trust_score)
            /\ FLess(revenue.trust_score, order_id.trust_score)
            /\ HasTextOf(revenue.warnings, "Low completeness")
            /\ HasTextOf(revenue.warnings, "High anomaly rate")

\* C17 (amended): order_id scores at least 95 (100), revenue scores lower
\* (93: completeness 85, anomaly-freedom 90), and revenue's warnings list is
\* empty: neither sub-score is under the warning threshold of 80, and both
\* are told in its reasons.
C17_OrdersNoWarnings ==
    OrdersScored =>
        LET order_id == trust.field_scores[1]
            revenue  == trust.field_scores[2]
        IN  /\ FLeq(Whole(95), order_id.trust_score)
            /\ FLess(revenue.trust_score, order_id.trust_score)
            /\ revenue.completeness_score = Whole(85)
            /\ revenue.anomaly_score = Whole(90)
            /\ revenue.warnings = <<>>
            /\ HasTextOf(revenue.reasons, "Good data completeness")
            /\ HasTextOf(revenue.reasons, "Few anomalies detected")

\* The orders dataset scored, the IQR finding counting the one outlier of
\* revenue.
C17_Witness ==
    /\ OrdersScored
    /\ GetCount(scoring.anomaly_report.report, "revenue") = 1
    /\ trust.field_scores[2].trust_score = Whole(93)

\* The columns of the scored dataset, by position.
ScoredColumns == {j \in 1..Len(df.columns) : scoring.made}

\* The entries of a list of validation entries attributed to a column.
AttributedTo(entries, column) ==
    Cardinality({i \in 1..Len(entries) : entries[i].column = column})

\* C18 (as stated): validity is 100 without a validation result, else
\* 100 - min(50, 10*E) - min(25, 5*W) with E and W the errors and warnings
\* attributed to the field's own column; entries of another column do not
\* lower it, and it is never below 25.
C18_ValidityOwnEntriesOnly ==
    \A j \in ScoredColumns :
        LET validity == trust.field_scores[j].validity_score
            E == AttributedTo(scoring.validation_result.errors, df.columns[j])
            W == AttributedTo(scoring.validation_result.warnings, df.columns[j])
        IN  /\ ~scoring.validation_result.given => validity = Whole(100)
            /\ scoring.validation_result.given =>
                  validity = Whole(100 - (IF 10 * E < 50 THEN 10 * E ELSE 50)
                                       - (IF 5 * W < 25 THEN 5 * W ELSE 25))
            /\ FLeq(Whole(25), validity)

\* C19: anomaly-freedom is 100 for a non-numeric column and without an
\* anomaly finding; for a numeric column of n > 0 rows of which the finding
\* counts c it is 100 - min(50, 2 * (100 * c / n)); it is never below 50.
C19_AnomalyFreedom ==
    \A j \in ScoredColumns :
        LET anomaly == trust.field_scores[j].anomaly_score
            n == Len(df.data[j])
            c == GetCount(scoring.anomaly_report.report, df.columns[j])
        IN  /\ (~scoring.anomaly_report.given \/ df.dtypes[j] \notin NumericDtypes)
                  => anomaly = Whole(100)
            /\ (scoring.anomaly_report.given /\ df.dtypes[j] \in NumericDtypes
                    /\ n > 0)
                  => anomaly = (IF 200 * c >= 50 * n THEN Whole(50)
                                ELSE Frac(100 * n - 200 * c, n))
            /\ FLeq(Whole(50), anomaly)

\* A numeric column with a deduction under the cap: 1 anomaly in 20 rows.
C19_Witness ==
    \E j \in ScoredColumns :
        /\ scoring.anomaly_report.given
        /\ GetCount(scoring.anomaly_report.report, df.columns[j]) = 1
        /\ Len(df.data[j]) = 20
        /\ trust.field_scores[j].anomaly_score = Whole(90)

\* C20 (as stated): a column without a missing value, with no validation
\* error or warning for it and no anomaly finding supplied, has
\* completeness = validity = anomaly-freedom = 100.
C20_CleanColumnPerfect ==
    \A j \in ScoredColumns :
        (/\ NullCount(df.data[j]) = 0
         /\ AttributedTo(scoring.validation_result.errors, df.columns[j]) = 0
         /\ AttributedTo(scoring.validation_result.warnings, df.columns[j]) = 0
         /\ ~scoring.anomaly_report.given)
            => /\ trust.field_scores[j].completeness_score = Whole(100)
               /\ trust.field_scores[j].validity_score = Whole(100)
               /\ trust.field_scores[j].anomaly_score = Whole(100)

(***************************************************************************)
(* Properties of the report as a whole                                     *)
(***************************************************************************)
\* C21: whenever calculate_dataset_trust has returned, field_scores holds
\* exactly one TrustScore per column of the dataset, in column order, and
\* metadata.total_fields is the number of columns: no report covers only a
\* subset of the columns.
C21_CompleteReport ==
    scoring.made =>
        /\ Len(trust.field_scores) = Len(df.columns)
        /\ \A j \in 1..Len(df.columns) :
               /\ trust.field_scores[j].field_name = df.columns[j]
               /\ trust.field_scores[j].sample_size = df.length
        /\ trust.metadata.total_fields = Len(df.columns)

\* A report of a dataset with two columns of different kinds, one of them
\* not numeric, has been returned.
C21_Witness ==
    /\ scoring.made
    /\ Len(df.columns) = 2
    /\ df.dtypes[2] \notin NumericDtypes
    /\ df.length > 0
    /\ Len(trust.field_scores) = 2

\* The band of a trust score by the thresholds 90 and 75.
BandOf(x) ==
    IF FLeq(Whole(90), x) THEN "high"
    ELSE IF FLeq(Whole(75), x) THEN "medium"
    ELSE "low"

FieldsInBand(band) ==
    {i \in 1..Len(trust.field_scores) :
        BandOf(trust.field_scores[i].trust_score) = band}

\* C22: in every report each field is in exactly one of the bands high
\* (>= 90), medium (75 <= score < 90) and low (< 75), the three counts of the
\* metadata are the sizes of the bands and add up to total_fields, and the
\* overall score is the unweighted mean of the field trust scores.
C22_BandsPartitionAndMean ==
    scoring.made =>
        /\ \A i \in 1..Len(trust.field_scores) :
            LET x == trust.field_scores[i].trust_score
                high == FLeq(Whole(90), x)
                medium == FLeq(Whole(75), x) /\ FLess(x, Whole(90))
                low == FLess(x, Whole(75))
            IN  /\ high \/ medium \/ low
                /\ ~(high /\ medium) /\ ~(high /\ low) /\ ~(medium /\ low)
        /\ trust.metadata.high_trust_fields = Cardinality(FieldsInBand("high"))
        /\ trust.metadata.medium_trust_fields = Cardinality(FieldsInBand("medium"))
        /\ trust.metadata.low_trust_fields = Cardinality(FieldsInBand("low"))
        /\ trust.metadata.high_trust_fields + trust.metadata.medium_trust_fields
               + trust.metadata.low_trust_fields = trust.metadata.total_fields
        /\ trust.field_scores # <<>> =>
               FTimes(trust.overall_trust_score, Len(trust.field_scores))
                   = SumScores(trust.field_scores)

\* A report with one field in the high band and one in another band, whose
\* overall score lies strictly between the two field scores.
C22_Witness ==
    /\ scoring.made
    /\ Len(trust.field_scores) = 2
    /\ BandOf(trust.field_scores[1].trust_score) # "high"
    /\ BandOf(trust.field_scores[2].trust_score) = "high"
    /\ FLess(trust.field_scores[1].trust_score, trust.overall_trust_score)
    /\ FLess(trust.overall_trust_score, trust.field_scores[2].trust_score)

(***************************************************************************)
(* Properties of grades, colours and the tabular export                    *)
(***************************************************************************)
\* The table to_dataframe has returned for the report the caller holds.
Exported == result.fn = "to_dataframe"

\* The grade the specification gives for a score in hundredths of a point.
GradeTable(x) ==
    IF x.num >= 95 * x.den THEN "A+"
    ELSE IF x.num >= 90 * x.den THEN "A"
    ELSE IF x.num >= 85 * x.den THEN "B+"
    ELSE IF x.num >= 80 * x.den THEN "B"
    ELSE IF x.num >= 75 * x.den THEN "C+"
    ELSE IF x.num >= 70 * x.den THEN "C"
    ELSE IF x.num >= 60 * x.den THEN "D"
    ELSE "F"

\* Grades and colours from best (1) to worst.
GradeRank ==
    [g \in {"A+", "A", "B+", "B", "C+", "C", "D", "F"} |->
        CASE g = "A+" -> 1 [] g = "A" -> 2 [] g = "B+" -> 3 [] g = "B" -> 4
          [] g = "C+" -> 5 [] g = "C" -> 6 [] g = "D" -> 7 [] g = "F" -> 8]

ColorRank ==
    [c \in {"#10a37f", "#f39c12", "#e67e22", "#e74c3c"} |->
        CASE c = "#10a37f" -> 1 [] c = "#f39c12" -> 2
          [] c = "#e67e22" -> 3 [] c = "#e74c3c" -> 4]

\* The whole scores from 55 to 100: every limit of a grade, the point
\* below it and the points between two limits.
ScoreSamples == {Whole(k) : k \in 55..100}

\* C23: the grade of every exported field is the one of the table A+ >= 95,
\* A >= 90, B+ >= 85, B >= 80, C+ >= 75, C >= 70, D >= 60, F below; a score
\* with the same grade as an exported field has the same colour, and a score
\* that is not higher has neither a better grade nor a better colour.
C23_GradeAndColourBands ==
    Exported =>
        \A i \in 1..Len(result.rows) :
            LET x == trust.field_scores[i].trust_score
                row == result.rows[i]
            IN  /\ row.Grade = GradeTable(x)
                /\ row.Grade \in DOMAIN GradeRank
                /\ row.Color \in DOMAIN ColorRank
                /\ \A y \in ScoreSamples
                        \cup {trust.field_scores[k].trust_score :
                                 k \in 1..Len(result.rows)} :
                       /\ get_grade(y) = row.Grade => get_color(y) = row.Color
                       /\ FLeq(y, x) =>
                              /\ GradeRank[get_grade(y)] >= GradeRank[row.Grade]
                              /\ ColorRank[get_color(y)] >= ColorRank[row.Color]

\* A table with two fields of different grades and the same colour.
C23_Witness ==
    /\ Exported
    /\ Len(result.rows) = 2
    /\ result.rows[1].Grade # result.rows[2].Grade
    /\ result.rows[1].Color = result.rows[2].Color
    /\ result.rows[1].Grade \in {"B+", "B", "C+"}

\* C24: the table exported for a report has exactly one row per field
\* score, in field order, exactly the thirteen columns Dataset ... Reasons,
\* and the report is as it was before the export.
C24_ExportRowsAndColumns ==
    Exported =>
        /\ Len(result.rows) = Len(trust.field_scores)
        /\ \A i \in 1..Len(result.rows) :
               /\ result.rows[i].Field_Name = trust.field_scores[i].field_name
               /\ result.rows[i].Dataset = trust.dataset_name
               /\ DOMAIN result.rows[i] =
                      {"Dataset", "Field_Name", "Trust_Score", "Grade", "Color",
                       "Completeness", "Validity", "Anomaly_Free", "Freshness",
                       "Sample_Size", "Last_Validated", "Warnings", "Reasons"}
        /\ result.columns =
               <<"Dataset", "Field_Name", "Trust_Score", "Grade", "Color",
                 "Completeness", "Validity", "Anomaly_Free", "Freshness",
                 "Sample_Size", "Last_Validated", "Warnings", "Reasons">>
        /\ trust = result.report

(***************************************************************************)
(* Properties of the findings: column counts and the union over columns    *)
(***************************************************************************)

\* The reports of the detectors the ensemble of the last call has run.
MemberReports ==
    [d \in 1..Len(call.detectors) |->
        MemberDetect(call.detectors[d], df, sklearn, forest).report]

\* The sum of the detectors' counts for column c, a detector that did not
\* report c counting as 0.
SumOfCounts(c) ==
    SumSeq([d \in 1..Len(call.detectors) |->
               IF c \in DOMAIN MemberReports[d].anomalies_by_column
               THEN MemberReports[d].anomalies_by_column[c] ELSE 0])

\* v is the mean total / n rounded to an integer: a nearest integer, and at
\* a tie k + 1/2 with k odd the upper one, k + 1 (1.5 gives 2 under rounding
\* half up and under rounding half to even alike).
IsRoundedMean(v, total, n) ==
    /\ 2 * AbsInt(n * v - total) <= n
    /\ (2 * total = n * (2 * v + 1)) => v % 2 = 0

\* C25: in the combined finding of the ensemble the count of each column is
\* the rounded mean of the detectors' counts for that column; counts 1 and
\* 2 give 2.
C25_RoundedMeanCounts ==
    EnsembleReturned =>
        \A c \in DOMAIN report.anomalies_by_column :
            IsRoundedMean(report.anomalies_by_column[c], SumOfCounts(c),
                          Len(call.detectors))

\* An IQR or Z-score call has returned a finding.
ColumnwiseReturned == call.fn \in {"iqr", "zscore"} /\ raised = "none"

\* The rows the detector of the last call finds anomalous in column j.
AnomalousIn(j) ==
    IF call.fn = "iqr"
    THEN IQRColumnAnomalies(df, j, call.multiplier2)
    ELSE ZScoreColumnAnomalies(df, j, call.threshold2)

\* The count the finding holds for column j, 0 for a column it leaves out.
CountOf(j) ==
    IF df.columns[j] \in DOMAIN report.anomalies_by_column
    THEN report.anomalies_by_column[df.columns[j]] ELSE 0

\* C26: in an IQR or Z-score finding a row is flagged exactly when it is
\* anomalous in at least one numeric column, total_anomalies is the number
\* of flagged rows, and max of the column counts <= total_anomalies <= sum
\* of the column counts.
C26_UnionOverColumns ==
    ColumnwiseReturned =>
        /\ \A i \in RowsOf(df) :
               i \in report.anomaly_indices
                   <=> \E j \in numeric_cols(df) : i \in AnomalousIn(j)
        /\ report.total_anomalies = Cardinality(report.anomaly_indices)
        /\ \A j \in numeric_cols(df) : CountOf(j) = Cardinality(AnomalousIn(j))
        /\ \A j \in numeric_cols(df) : CountOf(j) <= report.total_anomalies
        /\ report.total_anomalies
               <= SumSeq([j \in 1..Len(df.columns) |->
                             IF j \in numeric_cols(df) THEN CountOf(j) ELSE 0])

\* A finding over two numeric columns that flag different rows: the total
\* is above every column count.
C26_Witness ==
    /\ ColumnwiseReturned
    /\ Cardinality(numeric_cols(df)) = 2
    /\ \A j \in numeric_cols(df) :
           /\ CountOf(j) > 0
           /\ CountOf(j) < report.total_anomalies

(***************************************************************************)
(* The ensemble where scikit-learn is not installed                        *)
(***************************************************************************)
\* The names of the detectors the ensemble of the last call holds.
DetectorNames == {call.detectors[d] : d \in 1..Len(call.detectors)}

\* The same ensemble on the same dataset, configured without the isolation
\* forest.
WithoutForest ==
    EnsembleDetect(df,
                   EnsembleDetectors("IQR" \in DetectorNames,
                                     "Z-Score" \in DetectorNames,
                                     FALSE, sklearn),
                   call.voting, sklearn, forest)

Callers == {"a", "b"}

\* A caller about to run store.save_report(rep).
Writer(rep) ==
    [report |-> rep, pc |-> "ready", inserted |-> <<>>, raised |-> "none"]

InitWriters ==
    /\ df = DataFrame(<<>>, <<>>, <<>>, 0)
    /\ sklearn = FALSE
    /\ forest = [raises |-> FALSE, mask |-> {}]
    /\ call = NoCall
    /\ report = NoReport
    /\ raised = "none"
    /\ emitted = <<>>
    /\ scoring = NoScoring
    /\ trust = NoTrust
    /\ store = EmptyStore
    /\ clock = NoClock
    /\ result = NoResult
    /\ writers \in [Callers -> {Writer(rep) : rep \in StoreReports}]

\* Another connection holds the write lock.
LockedByOther(p) == \E q \in Callers \ {p} : writers[q].pc = "writing"

\* conn = sqlite3.connect(self.db_path); cursor = conn.cursor()
Connect(p) ==
    /\ writers[p].pc = "ready"
    /\ writers' = [writers EXCEPT ![p].pc = "connected"]
    /\ UNCHANGED <<df, sklearn, forest, call, report, raised, emitted,
                   scoring, trust, store, clock, result>>

\* cursor.execute("INSERT ...") for the next field score: the first INSERT
\* opens the transaction and takes the write lock, the row gets the next
\* AUTOINCREMENT id and is seen by this connection only.
Insert(p) ==
    LET w == writers[p]
        k == Len(w.inserted) + 1
    IN  /\ w.pc \in {"connected", "writing"}
        /\ k <= Len(w.report.field_scores)
        /\ ~LockedByOther(p)
        /\ writers' = [writers EXCEPT
               ![p].pc = "writing",
               ![p].inserted =
                   Append(@, StoredRow(w.report, w.report.field_scores[k],
                                       store.seq + k, clock.utc))]
        /\ UNCHANGED <<df, sklearn, forest, call, report, raised, emitted,
                       scoring, trust, store, clock, result>>

\* The first INSERT has waited for the write lock for the whole timeout:
\* sqlite3.OperationalError leaves save_report, nothing is written.
BusyTimeout(p) ==
    LET w == writers[p]
    IN  /\ w.pc = "connected"
        /\ Len(w.report.field_scores) > 0
        /\ LockedByOther(p)
        /\ writers' = [writers EXCEPT ![p].pc = "failed",
                                      ![p].raised = "OperationalError"]
        /\ UNCHANGED <<df, sklearn, forest, call, report, raised, emitted,
                       scoring, trust, store, clock, result>>

\* conn.commit(); conn.close(): the rows of the transaction become part of
\* the table and the write lock is given back.
Commit(p) ==
    LET w == writers[p]
    IN  /\ w.pc \in {"connected", "writing"}
        /\ Len(w.inserted) = Len(w.report.field_scores)
        /\ store' = [rows |-> store.rows \o w.inserted,
                     seq  |-> store.seq + Len(w.inserted)]
        /\ writers' = [writers EXCEPT ![p].pc = "done"]
        /\ UNCHANGED <<df, sklearn, forest, call, report, raised, emitted,
                       scoring, trust, clock, result>>

NextWriters ==
    \E p \in Callers : Connect(p) \/ Insert(p) \/ BusyTimeout(p) \/ Commit(p)

SpecWriters == InitWriters /\ [][NextWriters]_vars

\* Both callers have left save_report.
BothFinished == \A p \in Callers : writers[p].pc \in {"done", "failed"}

\* The records of the report of caller p, in field order, without their ids.
RecordsOf(p) ==
    [k \in 1..Len(writers[p].report.field_scores) |->
        StoredRow(writers[p].report, writers[p].report.field_scores[k],
                  0, clock.utc)]

\* The table in id order, without the ids.
TableWithoutIds == [i \in 1..Len(store.rows) |-> [store.rows[i] EXCEPT !.id = 0]]

\* C28: when two callers have run save(report) at the same time and both
\* have finished, the table holds every field record of both reports
\* exactly once, and in id order the records of one report come before all
\* records of the other.
C28_ConcurrentSavesSerialized ==
    BothFinished =>
        /\ \A i, j \in 1..Len(store.rows) :
               i < j => store.rows[i].id < store.rows[j].id
        /\ \/ TableWithoutIds = RecordsOf("a") \o RecordsOf("b")
           \/ TableWithoutIds = RecordsOf("b") \o RecordsOf("a")

(***************************************************************************)
(* The store is append-only                                                *)
(***************************************************************************)
\* Every row of the table before is a row of the table after, at the same
\* place and with the same values.
KeptIn(before, after) ==
    /\ Len(before) <= Len(after)
    /\ \A i \in 1..Len(before) : after[i] = before[i]

\* C29: every step of save, export, latest, history and re-opening keeps
\* each record that was in the table, with unchanged values; the ids of the
\* table increase strictly in write order; latest, history and re-opening
\* leave the table as it was.
C29_AppendOnly ==
    [][/\ KeptIn(store.rows, store'.rows)
       /\ \A i, j \in 1..Len(store'.rows) :
              i < j => store'.rows[i].id < store'.rows[j].id
       /\ result'.fn \in {"latest", "history", "open"} => store' = store]_vars

\* After two saves have filled the table, a query has run on it.
C29_Witness ==
    /\ Len(store.rows) >= 3
    /\ result.fn \in {"latest", "history", "open"}
    /\ result.before = store.rows
    /\ \E i, j \in 1..Len(store.rows) :
           store.rows[i].timestamp < store.rows[j].timestamp

(***************************************************************************)
(* Freshness under every staleness threshold                               *)
(***************************************************************************)
\* The greatest age in days of a newest timestamp.
MaxAge == 61

\* The thresholds TrustScoreCalculator(freshness_threshold_days) is built
\* with.
StalenessThresholds == 1..30

\* Datasets with one date column whose newest timestamp is a days old.
FreshFrames ==
    {DataFrame(<<"ts">>, <<"datetime64">>, <<<<0 - a>>>>, 1) : a \in 0..MaxAge}

InitFresh ==
    /\ df \in FreshFrames
    /\ sklearn = FALSE
    /\ forest = [raises |-> FALSE, mask |-> {}]
    /\ call = NoCall
    /\ report = NoReport
    /\ raised = "none"
    /\ emitted = <<>>
    /\ scoring = NoScoring
    /\ trust = NoTrust
    /\ store = EmptyStore
    /\ clock = NoClock
    /\ result = NoResult
    /\ writers = NoWriters

\* TrustScoreCalculator(freshness_threshold_days = threshold)
\*     .calculate_dataset_trust(df, date_column = "ts")
ScoreFreshness ==
    /\ ~scoring.made
    /\ \E threshold \in StalenessThresholds :
        LET validation_result == [given |-> FALSE, errors |-> <<>>, warnings |-> <<>>]
            anomaly_report == [given |-> FALSE, report |-> NoReport]
        IN  /\ scoring' = [made |-> TRUE,
                           validation_result |-> validation_result,
                           anomaly_report |-> anomaly_report,
                           date_column |-> "ts",
                           dataset_name |-> "dataset",
                           threshold |-> threshold]
            /\ trust' = calculate_dataset_trust(df, validation_result,
                            anomaly_report, "ts", "dataset", threshold)
    /\ UNCHANGED <<df, sklearn, forest, call, report, raised, emitted,
                   store, clock, result, writers>>

NextFresh == ScoreFreshness \/ DiscardTrust

SpecFresh == InitFresh /\ [][NextFresh]_vars

\* The freshness score of a date column whose newest timestamp is a days
\* old, under the threshold of the last scoring call.
FreshnessUnderThreshold(a) ==
    calculate_freshness_score(<<0 - a>>, "datetime64", "ts", scoring.threshold)

\* C30: for every staleness threshold from 1 to 30 and all ages d1 <= d2 in
\* whole days the freshness score at d1 is at least the one at d2.
C30_FreshnessMonotoneAllThresholds ==
    (/\ scoring.made
     /\ scoring.threshold \in StalenessThresholds
     /\ scoring.date_column = "ts"
     /\ df \in FreshFrames) =>
        \A d2 \in 0..MaxAge :
            0 - df.data[1][1] <= d2 =>
                FLeq(FreshnessUnderThreshold(d2),
                     trust.field_scores[1].freshness_score)

====
